---- MODULE Spec2Model ----
(***************************************************************************)
(* Model of the base-configuration reconcile cycle of the Jenkins          *)
(* operator (pkg/configuration/base/reconciler.go).  One cycle of          *)
(* JenkinsBaseConfigurationReconciler.Reconcile is a walk through its      *)
(* stages; every read of the platform (the pod, the clock, the event       *)
(* list) and every answer of a collaborator (ensure, client, plugins,      *)
(* restart) is an input drawn when the stage runs.                         *)
(***************************************************************************)
EXTENDS Integers, Sequences, FiniteSets, TLC

\* ------------------------------------------------------------- bounds
MaxContainers == 2
MaxEvents == 2
MaxStart == 1
MaxPlugins == 2
MaxRoles == 2
MaxPasses == 2
MaxFeed == 2
MaxLive == 1

\* ---------------------------------------------------- program constants
\* time.Minute * 2: the pending timeout, in minutes
PendingTimeout == 2
\* time.Second * 5: the readiness backoff, in seconds
RequeueAfterSeconds == 5

\* ------------------------------------------------------------ values
NoErr == "nil"
NoClient == "nil"
JenkinsClient == "jenkinsClient"
NoTime == <<>>

OperatorSource == "operator"
KubernetesSource == "kubernetes"

PodPending == "Pending"
PodRunning == "Running"
PodFailed == "Failed"
Phases == {PodPending, PodRunning, PodFailed}

EventTypeNormal == "Normal"
EventTypeWarning == "Warning"

\* Names are sequences of characters, so that a prefix is a prefix.
JenkinsMasterPodName == <<"j", "a">>
SiblingPodName == <<"j", "a", "2">>
OtherObjectName == <<"d", "b">>
ObjectNames == {JenkinsMasterPodName, SiblingPodName, OtherObjectName}

\* strings.HasPrefix
HasPrefix(s, prefix) ==
    /\ Len(s) >= Len(prefix)
    /\ SubSeq(s, 1, Len(prefix)) = prefix

\* The clock, in minutes.
Times == 0..(MaxStart + PendingTimeout + 1)
StartTimes == 0..MaxStart
EventTimes == 0..(MaxStart + 1)

\* A platform event: its own name is the involved object's name plus a
\* suffix, its type, its last timestamp.
Events ==
    { [name |-> obj \o <<".", "x">>, involved |-> obj, type |-> ty, lastTimestamp |-> t] :
        obj \in ObjectNames, ty \in {EventTypeNormal, EventTypeWarning}, t \in EventTimes }

EventLists == { s \in SUBSET Events : Cardinality(s) <= MaxEvents }

\* A container status: a terminated container is not ready.
ContainerStatuses ==
    { c \in [terminated : BOOLEAN, ready : BOOLEAN] : c.terminated => ~c.ready }

SeqsUpTo(S, n) == UNION { [1..k -> S] : k \in 0..n }

\* The managed pod as the readiness stage reads it.
Pods ==
    [ name : {JenkinsMasterPodName},
      phase : Phases,
      terminating : BOOLEAN,
      containerStatuses : SeqsUpTo(ContainerStatuses, MaxContainers) ]

\* The instance a cycle is constructed with: Status.ProvisionStartTime
\* (NoTime or <<t>>) and the jenkins.io/use-deployment annotation
\* (<<>> when absent).
JenkinsInstances ==
    [ provisionStartTime : {NoTime} \cup { <<t>> : t \in StartTimes },
      useDeployment : {<<>>, <<"true">>, <<"false">>} ]

\* reconcile.Result
Result(requeue, requeueAfter) == [requeue |-> requeue, requeueAfter |-> requeueAfter]
EmptyResult == Result(FALSE, 0)

\* reason.NewPodRestart(source, messages); by names the caller.
NewPodRestart(source, messages, by) ==
    [source |-> source, messages |-> messages, by |-> by]

\* ------------------------------------------------ the platform's answers
\* GetJenkinsMasterPod as the starting-issue detector reads it: the name
\* and the phase.
DetectPods == [name : {JenkinsMasterPodName}, phase : Phases]

NoPod == [name |-> <<>>, phase |-> "", terminating |-> FALSE, containerStatuses |-> <<>>]

GetPodResults(pods) ==
    { [err |-> NoErr, pod |-> p] : p \in pods } \cup { [err |-> "getPodErr", pod |-> NoPod] }

ListEventsResults ==
    { [err |-> NoErr, items |-> l] : l \in EventLists } \cup { [err |-> "listErr", items |-> {}] }

RestartErrors == {NoErr, "restartErr"}

\* ------------------------------------------ starting-issue detector
\* ProvisionStartTime.UTC().After(eventItem.LastTimestamp.UTC())
ProvisionStartAfter(jenkins, eventItem) ==
    jenkins.provisionStartTime[1] > eventItem.lastTimestamp

filterEvents(source, jenkins, jenkinsMasterPod) ==
    { eventItem \in source :
        /\ ~ProvisionStartAfter(jenkins, eventItem)
        /\ eventItem.type # EventTypeNormal
        /\ HasPrefix(eventItem.name, jenkinsMasterPod.name) }

\* Mutant: the bound is reached at exactly two minutes.
PendingTimedOut_AtTheBound(jenkins, now) ==
    now >= jenkins.provisionStartTime[1] + PendingTimeout

\* now.After(ProvisionStartTime.Add(time.Minute * 2))
PendingTimedOut(jenkins, now) ==
    now > jenkins.provisionStartTime[1] + PendingTimeout

\* Mutant: the timeout alone stops the loop, whatever the events.
StopOnEvents_Always(filteredEvents) == TRUE

\* len(filteredEvents) == 0: go on waiting; otherwise stop.
StopOnEvents(filteredEvents) == filteredEvents # {}

NoDetect ==
    [called |-> FALSE, stop |-> FALSE, err |-> NoErr, phase |-> <<>>, now |-> <<>>,
     listed |-> FALSE, events |-> {}, filteredEvents |-> {}, matched |-> 0]

\* matched is len(filteredEvents).
DetectReturn(stop, err, phase, now, listed, events, filteredEvents) ==
    [called |-> TRUE, stop |-> stop, err |-> err, phase |-> phase, now |-> now,
     listed |-> listed, events |-> events, filteredEvents |-> filteredEvents,
     matched |-> Cardinality(filteredEvents)]

\* The return values (stop, err) and what the call read on its way: the
\* pod's phase, the clock (read for a Pending pod only), the event list.
detectJenkinsMasterPodStartingIssues(jenkins, podRes, now, listRes) ==
    IF podRes.err # NoErr
    THEN DetectReturn(FALSE, podRes.err, <<>>, <<>>, FALSE, {}, {})
    ELSE IF jenkins.provisionStartTime = NoTime
    THEN DetectReturn(TRUE, NoErr, <<podRes.pod.phase>>, <<>>, FALSE, {}, {})
    ELSE IF podRes.pod.phase # PodPending
    THEN DetectReturn(FALSE, NoErr, <<podRes.pod.phase>>, <<>>, FALSE, {}, {})
    ELSE IF ~PendingTimedOut(jenkins, now)
    THEN DetectReturn(FALSE, NoErr, <<podRes.pod.phase>>, <<now>>, FALSE, {}, {})
    ELSE IF listRes.err # NoErr
    THEN DetectReturn(FALSE, listRes.err, <<podRes.pod.phase>>, <<now>>, FALSE, {}, {})
    ELSE LET filteredEvents == filterEvents(listRes.items, jenkins, podRes.pod)
         IN  DetectReturn(StopOnEvents(filteredEvents), NoErr, <<podRes.pod.phase>>, <<now>>,
                          TRUE, listRes.items, filteredEvents)

\* ------------------------------------------------------ readiness wait
\* r.IsJenkinsTerminating(pod): the pod's terminating field is its answer.
IsJenkinsTerminating(pod) == pod.terminating

\* Mutant: the requeue without its delay.
ShortRequeue_NoDelay == Result(TRUE, 0)

\* reconcile.Result{Requeue: true, RequeueAfter: time.Second * 5}
ShortRequeue == Result(TRUE, RequeueAfterSeconds)

ContainerTerminatedMessage(i) == <<"Container is terminated", i>>

\* The loop over the container statuses: the index of the first
\* terminated container (0 when the loop runs to its end) and
\* containersReadyCount.
\* Mutant: a container that is not ready is counted as ready.
RECURSIVE containerLoop_CountsNotReady(_, _, _)
containerLoop_CountsNotReady(statuses, i, containersReadyCount) ==
    IF i > Len(statuses)
    THEN [terminatedAt |-> 0, containersReadyCount |-> containersReadyCount]
    ELSE IF statuses[i].terminated
    THEN [terminatedAt |-> i, containersReadyCount |-> containersReadyCount]
    ELSE containerLoop_CountsNotReady(statuses, i + 1, containersReadyCount + 1)

RECURSIVE containerLoop(_, _, _)
containerLoop(statuses, i, containersReadyCount) ==
    IF i > Len(statuses)
    THEN [terminatedAt |-> 0, containersReadyCount |-> containersReadyCount]
    ELSE IF statuses[i].terminated
    THEN [terminatedAt |-> i, containersReadyCount |-> containersReadyCount]
    ELSE containerLoop(statuses, i + 1,
                       IF statuses[i].ready THEN containersReadyCount + 1
                                            ELSE containersReadyCount)

\* Mutant: one restart request for every terminated container (the loop
\* does not return at the first one).
restartTerminated_EveryContainer(statuses, terminatedAt) ==
    LET terminated == SelectSeq([i \in 1..Len(statuses) |-> i],
                                LAMBDA i : statuses[i].terminated)
    IN  [k \in 1..Len(terminated) |->
            NewPodRestart(KubernetesSource,
                          << ContainerTerminatedMessage(terminated[k]) >>,
                          "waitForJenkins")]

\* The restart requested for the first terminated container.
restartTerminated(statuses, terminatedAt) ==
    << NewPodRestart(KubernetesSource,
                     << ContainerTerminatedMessage(terminatedAt) >>,
                     "waitForJenkins") >>

WaitReturn(result, err, restarts) ==
    [result |-> result, err |-> err, restarts |-> restarts]

\* Mutant: a pod without container statuses is not ready yet.
waitForJenkins_NeedsAContainer(podRes, restartErr) ==
    IF podRes.err # NoErr
    THEN WaitReturn(EmptyResult, podRes.err, <<>>)
    ELSE IF IsJenkinsTerminating(podRes.pod)
    THEN WaitReturn(ShortRequeue, NoErr, <<>>)
    ELSE IF podRes.pod.phase # PodRunning
    THEN WaitReturn(ShortRequeue, NoErr, <<>>)
    ELSE LET loop == containerLoop(podRes.pod.containerStatuses, 1, 0)
         IN  IF loop.terminatedAt # 0
             THEN WaitReturn(Result(TRUE, 0), restartErr,
                             restartTerminated(podRes.pod.containerStatuses,
                                               loop.terminatedAt))
             ELSE IF \/ loop.containersReadyCount # Len(podRes.pod.containerStatuses)
                     \/ Len(podRes.pod.containerStatuses) = 0
             THEN WaitReturn(ShortRequeue, NoErr, <<>>)
             ELSE WaitReturn(EmptyResult, NoErr, <<>>)

\* restartErr is RestartJenkinsMasterPod's answer, used when it is called.
waitForJenkins(podRes, restartErr) ==
    IF podRes.err # NoErr
    THEN WaitReturn(EmptyResult, podRes.err, <<>>)
    ELSE IF IsJenkinsTerminating(podRes.pod)
    THEN WaitReturn(ShortRequeue, NoErr, <<>>)
    ELSE IF podRes.pod.phase # PodRunning
    THEN WaitReturn(ShortRequeue, NoErr, <<>>)
    ELSE LET loop == containerLoop(podRes.pod.containerStatuses, 1, 0)
         IN  IF loop.terminatedAt # 0
             THEN WaitReturn(Result(TRUE, 0), restartErr,
                             restartTerminated(podRes.pod.containerStatuses,
                                               loop.terminatedAt))
             ELSE IF loop.containersReadyCount # Len(podRes.pod.containerStatuses)
             THEN WaitReturn(ShortRequeue, NoErr, <<>>)
             ELSE WaitReturn(EmptyResult, NoErr, <<>>)

\* ----------------------------------------- the collaborators' answers
ResourceErrors == {NoErr, "resourcesErr"}

EnsureResults == {EmptyResult, Result(TRUE, 0)}

EnsureDeploymentOutcomes ==
    [result : EnsureResults, err : {NoErr, "deploymentErr"}]

EnsureMasterPodOutcomes ==
    [result : EnsureResults, err : {NoErr, "masterPodErr"}]

GetJenkinsClientOutcomes ==
    { [client |-> JenkinsClient, err |-> NoErr], [client |-> NoClient, err |-> "clientErr"] }

\* A plugin is a name and a version; a list names a plugin once.
Plugins == [name : {"A", "B"}, version : {1, 2}]

PluginLists ==
    { l \in SeqsUpTo(Plugins, MaxPlugins) :
        \A i, j \in 1..Len(l) : l[i].name = l[j].name => i = j }

\* The plugin check's comparison: the same (name, version) pairs, in any
\* order.
pluginsMatch(desired, installed) ==
    /\ Len(desired) = Len(installed)
    /\ \A p \in Plugins :
          Cardinality({ i \in 1..Len(desired) : desired[i] = p })
              = Cardinality({ i \in 1..Len(installed) : installed[i] = p })

NoPlugins == [desired |-> <<>>, installed |-> <<>>, fetched |-> FALSE]

\* verifyPlugins' answers (ok, err), with the lists it compared: the
\* instance's plugin list and the list fetched from the management API
\* (the fetch may fail).
VerifyPluginsOutcomes ==
    { [ok |-> pluginsMatch(desired, installed), err |-> NoErr,
       plugins |-> [desired |-> desired, installed |-> installed, fetched |-> TRUE]] :
          desired \in PluginLists, installed \in PluginLists }
    \cup { [ok |-> FALSE, err |-> "pluginsErr", plugins |-> NoPlugins] }

EnsureBaseConfigurationOutcomes == [requeue : BOOLEAN, err : {NoErr, "groovyErr"}]

PluginsChangedMessage == <<"Some plugins have changed, restarting Jenkins">>

\* ------------------------------------------------------------- state
VARIABLES
    pc,        \* the stage Reconcile is about to run, or "done"
    jenkins,   \* r.Configuration.Jenkins of this cycle
    calls,     \* the stages invoked in this cycle, with what each returned
    restarts,  \* the RestartJenkinsMasterPod calls of this cycle
    returned,  \* what Reconcile returned (read when pc = "done")
    det,       \* the starting-issue detector's call of this cycle
    waitPod,   \* the pod the readiness wait read, <<>> before it
    plugins    \* the plugin lists the plugin check compared in this cycle

reconcileVars == <<pc, jenkins, calls, restarts, returned, det, waitPod, plugins>>

\* The named configuration payloads: two scripts and one payload of another
\* kind.  Names are sequences of characters, so that a suffix is a suffix.
GroovySuffix == <<".", "g", "r", "o", "o", "v", "y">>
PayloadOrder ==
    << <<"a">> \o GroovySuffix, <<"b">> \o GroovySuffix, <<"c", ".", "y", "a", "m", "l">> >>
PayloadNames == { PayloadOrder[i] : i \in 1..Len(PayloadOrder) }
Contents == {"X", "Y"}

\* The content digest: distinct contents have distinct digests.
Digest(content) == <<"sha256", content>>

NoApplyPass ==
    [ran |-> FALSE, data |-> [n \in PayloadNames |-> "X"],
     before |-> [n \in PayloadNames |-> <<>>], executed |-> <<>>, failed |-> {},
     result |-> EmptyResult, err |-> NoErr,
     prior |-> [ran |-> FALSE, sameData |-> FALSE, failed |-> {}, err |-> NoErr]]

\* The configuration payloads and their persisted checksum records.
VARIABLES
    payloads,   \* the named configuration payloads, name -> content
    checksums,  \* ChecksumRecord: name -> <<>> or <<digest>>
    applyPass   \* what the last pass of the applier did

applyVars == <<payloads, checksums, applyPass>>

ApplyIdle ==
    /\ payloads = [n \in PayloadNames |-> "X"]
    /\ checksums = [n \in PayloadNames |-> <<>>]
    /\ applyPass = NoApplyPass


\* Role bindings of the platform store.  Two instances live in the
\* namespace "ns"; the name of the second one is the name of the first one
\* followed by "-r".
JenkinsNamespace == "ns"
InstanceNames == { <<"a">>, <<"a", "-", "r">> }
Instances == [name : InstanceNames, namespace : {JenkinsNamespace}]
RoleRefs == [kind : {"Role", "ClusterRole"}, name : { <<"x">> }]
RoleLists == SeqsUpTo(RoleRefs, MaxRoles)

Binding(namespace, name) == [namespace |-> namespace, name |-> name]

\* The names of the bindings of the namespace, in the order List returns
\* them: the instances' base bindings "a" and "a-r", the extra bindings of
\* both instances and a binding "z" of somebody else.
BindingOrder ==
    << <<"a">>,
       <<"a", "-", "c", "r", "-", "x">>,
       <<"a", "-", "r">>,
       <<"a", "-", "r", "-", "c", "r", "-", "x">>,
       <<"a", "-", "r", "-", "r", "-", "x">>,
       <<"a", "-", "r", "-", "x">>,
       <<"z">> >>

ExtraBindingNames == { BindingOrder[i] : i \in {2, 4, 5, 6} }

\* What the store always holds here: the base bindings, the foreign binding
\* and a binding of another namespace named like an extra binding.
FixedBindings ==
    { Binding(JenkinsNamespace, BindingOrder[i]) : i \in {1, 3, 7} }
        \cup { Binding("other", BindingOrder[6]) }

BindingStores ==
    { FixedBindings \cup { Binding(JenkinsNamespace, n) : n \in extra } :
        extra \in SUBSET ExtraBindingNames }

NoFault == [at |-> "none", index |-> 0, name |-> <<>>]

NoRBACPass ==
    [ran |-> FALSE, meta |-> [name |-> <<"a">>, namespace |-> JenkinsNamespace],
     roles |-> <<>>, before |-> FixedBindings, fault |-> NoFault, err |-> NoErr,
     attempted |-> <<>>, created |-> {}, deleteCalls |-> <<>>, deleted |-> {}]

VARIABLES
    bindings,   \* the role bindings of the platform store
    rbacPass    \* what the last pass of ensureExtraRBAC did

rbacVars == <<bindings, rbacPass>>

RBACIdle ==
    /\ bindings = FixedBindings
    /\ rbacPass = NoRBACPass

\* The services of the instance "a": the HTTP service and the slave service.
ServiceNames == {"http", "slave"}
Labels == {"app=jenkins-operator", "jenkins-cr=a"}
Selectors == { {}, Labels, {"app=other"} }
Ports == {80, 8080}
ServiceConfigs == [port : Ports]
TargetPort(name) == IF name = "http" THEN 8080 ELSE 50000
Services == [selector : Selectors, port : Ports, targetPort : {8080, 50000}]
StoredServices == { <<>> } \cup { <<svc>> : svc \in Services }

NoServicePass ==
    [ran |-> FALSE, name |-> "http", config |-> [port |-> 80], before |-> <<>>,
     after |-> <<>>, err |-> NoErr, writes |-> <<>>]

VARIABLES
    services,    \* the services of the platform store, name -> <<>> or <<service>>
    servicePass  \* what the last call of createService did

serviceVars == <<services, servicePass>>

ServiceIdle ==
    /\ services = [n \in ServiceNames |-> <<>>]
    /\ servicePass = NoServicePass

\* The route capability of the platform, its process-wide cache and the route.
NoRouteHistory ==
    [calls |-> 0, probes |-> 0, first |-> <<>>, last |-> <<>>, ensured |-> FALSE]

VARIABLES
    routeAPIChecked,      \* the package variable routeAPIChecked
    isRouteAPIAvailable,  \* the package variable isRouteAPIAvailable
    routeAPIInstalled,    \* whether the platform serves the route API now
    route,                \* the route of the platform store, <<>> or <<route>>
    routeHistory          \* the calls of IsRouteAPIAvailable so far

routeVars == <<routeAPIChecked, isRouteAPIAvailable, routeAPIInstalled, route, routeHistory>>

RouteIdle ==
    /\ routeAPIChecked = FALSE
    /\ isRouteAPIAvailable = FALSE
    /\ routeAPIInstalled = FALSE
    /\ route = <<>>
    /\ routeHistory = NoRouteHistory

\* The synchronizer, ensureResourcesRequiredForJenkinsPod, pass after pass
\* for the instance "a".
SyncMeta == [name |-> <<"a">>, namespace |-> JenkinsNamespace]
\* The desired states: a role list naming no role twice, the configuration of
\* the HTTP service and the one of the slave service.
DesiredStates ==
    [roles : { l \in RoleLists : \A i, j \in 1..Len(l) : l[i] = l[j] => i = j },
     service : ServiceConfigs,
     slaveService : [port : {50000}]]
NoDesiredState == [roles |-> <<>>, service |-> [port |-> 80], slaveService |-> [port |-> 50000]]
NoSnapshot ==
    [bindings |-> FixedBindings, services |-> [n \in ServiceNames |-> <<>>], route |-> <<>>]

VARIABLES
    syncPc,      \* the step of the pass: "idle", "rbac", "http", "slave", "route", "done"
    desiredState,  \* the desired state of the pass
    second,      \* the pass follows a pass without error, same desired state, same store
    touched,     \* the store was changed from outside since the last pass
    syncLog,     \* the writes the pass has issued against the store
    syncErr,     \* the error the pass returned
    syncBefore,  \* the store when the pass began
    passes       \* the number of passes begun

syncVars == <<syncPc, desiredState, second, touched, syncLog, syncErr, syncBefore, passes>>

SyncIdle ==
    /\ syncPc = "idle"
    /\ desiredState = NoDesiredState
    /\ second = FALSE
    /\ touched = FALSE
    /\ syncLog = <<>>
    /\ syncErr = NoErr
    /\ syncBefore = NoSnapshot
    /\ passes = 0

\* The notification dispatcher.  An event has a level and the messages of
\* its reason; a notification config names a service and a logging level.
NotificationLevelInfo == "info"
NotificationLevelWarning == "warning"
NotificationLevels == {NotificationLevelInfo, NotificationLevelWarning, ""}
NotificationEvents ==
    [level : NotificationLevels, messages : { <<"m">> }]
        \cup [level : {NotificationLevelInfo}, messages : { <<>> }]
Notification(service, level) == [service |-> service, loggingLevel |-> level]

\* The notification lists of the instance: none, a config naming no service
\* followed by a Slack config for warnings, and a Slack config for
\* everything followed by an SMTP config for warnings.
NotificationLists ==
    { <<>>,
      <<Notification("", NotificationLevelInfo),
        Notification("slack", NotificationLevelWarning)>>,
      <<Notification("slack", NotificationLevelInfo),
        Notification("smtp", NotificationLevelWarning)>> }

VARIABLES
    notifications,  \* e.Jenkins.Spec.Notifications
    fed,            \* the events received from the channel so far
    eVar,           \* the loop variable e of Listen: <<>> or <<index in fed>>
    listenPc,       \* "receive" or "dispatch"
    audits,         \* the platform events emitted, in order
    tasks,          \* the delivery tasks spawned, in order
    loopVar         \* the build: the loop variable e is "shared" or "perIteration"

listenVars == <<notifications, fed, eVar, listenPc, audits, tasks, loopVar>>

ListenIdle ==
    /\ notifications = <<>>
    /\ fed = <<>>
    /\ eVar = <<>>
    /\ listenPc = "idle"
    /\ audits = <<>>
    /\ tasks = <<>>
    /\ loopVar = "perIteration"

\* The ownership router and the instance-event decorator.  A missing label
\* reads as "", as a missing key of a Go map does.
LabelAppValue == "LabelAppValue"
LabelWatchValue == "LabelWatchValue"
LabelSets ==
    [app : {LabelAppValue, "other"},
     watch : {"", LabelWatchValue},
     jenkinsCR : {"", "a", "b"}]
Objects == [namespace : {"ns", "other"}, labels : LabelSets]
NoObject == <<>>
JenkinsSpecs == {"spec1", "spec2"}
NoRouted == [kind |-> "none", old |-> NoObject, new |-> NoObject, adds |-> <<>>]
NoDecorated ==
    [kind |-> "none", oldSpec |-> "spec1", newSpec |-> "spec1", forwarded |-> <<>>,
     logged |-> 0]

VARIABLES
    routed,     \* the last notification handled by enqueueRequestForJenkins
    decorated   \* the last event handled by jenkinsDecorator

routerVars == <<routed, decorated>>

RouterIdle ==
    /\ routed = NoRouted
    /\ decorated = NoDecorated

\* Concurrent callers of IsRouteAPIAvailable: each runs the function
\* statement by statement on the package variables.
Callers == {"c1", "c2", "c3"}

VARIABLES
    racePc,         \* caller -> the statement it is about to run
    raceErr,        \* caller -> its probe failed (the local err), <<>> before the probe
    raceRet,        \* caller -> the value its call returned, <<>> before the return
    probeOutcomes   \* the outcomes of the probes made so far

raceVars == <<racePc, raceErr, raceRet, probeOutcomes>>

RaceIdle ==
    /\ racePc = [c \in Callers |-> "idle"]
    /\ raceErr = [c \in Callers |-> <<>>]
    /\ raceRet = [c \in Callers |-> <<>>]
    /\ probeOutcomes = {}

\* The operator credentials secret: its two data entries, <<>> when the
\* entry is missing; "generated" is what NewOperatorCredentialsSecret makes.
SecretEntries == { <<>>, <<"">>, <<"stored">> }
Secrets == [userName : SecretEntries, password : SecretEntries]
NewOperatorCredentialsSecret == [userName |-> <<"generated">>, password |-> <<"generated">>]
NoSecretPass ==
    [ran |-> FALSE, before |-> <<>>, after |-> <<>>, fault |-> "none", writes |-> <<>>,
     err |-> NoErr]

VARIABLES
    secret,      \* the secret of the platform store, <<>> or <<secret>>
    secretPass   \* what the last call of createOperatorCredentialsSecret did

secretVars == <<secret, secretPass>>

SecretIdle ==
    /\ secret = <<>>
    /\ secretPass = NoSecretPass

\* What the platform and the collaborators answer from now on: "any"
\* answer, or "ready" (the pod is Running with every container ready, the
\* installed plugins are the desired ones, every payload runs), or
\* "healthy" (ready, and every call of the cycle succeeds).
Environments == {"any", "ready", "healthy"}

VARIABLES
    env   \* the environment of the cycles

liveVars == <<env>>

LiveIdle == env = "any"

\* intstr.IntOrString, as decoded from the platform: an integer, or a name
\* with IntVal zero.
FromInt(val) == [type |-> "Int", intVal |-> val, strVal |-> ""]
FromString(val) == [type |-> "String", intVal |-> 0, strVal |-> val]
TargetPorts == { FromInt(80), FromInt(8080), FromInt(443), FromString("web") }

\* An observed route: the name of its target service, its port (Spec.Port
\* is a pointer; <<>> is a route without port) and its host.
Routes ==
    [to : {"http", "other"},
     port : { <<>> } \cup { <<[targetPort |-> p]>> : p \in TargetPorts },
     host : {"h1", "h2", "h3"}]

NoRouteCall ==
    [step |-> 0, actual |-> [to |-> "http", port |-> <<>>, host |-> "h1"], port |-> 80,
     out |-> <<>>, again |-> <<>>]

VARIABLES
    routeCall   \* a call of UpdateRoute, and the call on its result

updVars == <<routeCall>>

UpdIdle == routeCall = NoRouteCall

\* Outside the specification of component c, nothing moves.
IdleOutside(c) ==
    /\ IF c = "upd" THEN TRUE ELSE UpdIdle
    /\ IF c = "apply" THEN TRUE ELSE ApplyIdle
    /\ IF c = "rbac" THEN TRUE ELSE RBACIdle
    /\ IF c = "service" THEN TRUE ELSE ServiceIdle
    /\ IF c \in {"sync", "race"} THEN TRUE ELSE RouteIdle
    /\ IF c = "sync" THEN TRUE ELSE SyncIdle
    /\ IF c = "listen" THEN TRUE ELSE ListenIdle
    /\ IF c = "router" THEN TRUE ELSE RouterIdle
    /\ IF c = "race" THEN TRUE ELSE RaceIdle
    /\ IF c = "secret" THEN TRUE ELSE SecretIdle
    /\ IF c = "live" THEN TRUE ELSE LiveIdle

\* The state outside the reconcile cycle.
outsideReconcile ==
    <<applyVars, rbacVars, serviceVars, routeVars, syncVars,
      listenVars, routerVars, raceVars, secretVars, liveVars, updVars>>

vars == <<reconcileVars, outsideReconcile>>

Call(stage, result, err, stop, ok) ==
    [stage |-> stage, result |-> result, err |-> err, stop |-> stop, ok |-> ok]

NotReturned == [result |-> EmptyResult, client |-> NoClient, err |-> NoErr]

\* return result, client, err
Return(result, client, err) ==
    /\ pc' = "done"
    /\ returned' = [result |-> result, client |-> client, err |-> err]

Goto(stage) ==
    /\ pc' = stage
    /\ UNCHANGED returned

\* Mutant: any value of the annotation selects deployment mode.
useDeploymentForJenkinsMaster_AnyValue(j) == j.useDeployment # <<>>

useDeploymentForJenkinsMaster(j) == j.useDeployment = <<"true">>

\* No cycle is running.
ReconcileIdle ==
    /\ pc = "idle"
    /\ jenkins = [provisionStartTime |-> NoTime, useDeployment |-> <<>>]
    /\ calls = <<>>
    /\ restarts = <<>>
    /\ returned = NotReturned
    /\ det = NoDetect
    /\ waitPod = <<>>
    /\ plugins = NoPlugins

Init ==
    /\ pc = "resources"
    /\ jenkins \in JenkinsInstances
    /\ calls = <<>>
    /\ restarts = <<>>
    /\ returned = NotReturned
    /\ det = NoDetect
    /\ waitPod = <<>>
    /\ plugins = NoPlugins
    /\ IdleOutside("reconcile")

ensureResourcesRequiredForJenkinsPod ==
    /\ pc = "resources"
    /\ \E err \in ResourceErrors :
          /\ calls' = Append(calls, Call("resources", EmptyResult, err, FALSE, TRUE))
          /\ IF err # NoErr
             THEN Return(EmptyResult, NoClient, err)
             ELSE IF useDeploymentForJenkinsMaster(jenkins)
             THEN Goto("deployment")
             ELSE Goto("masterPod")
    /\ UNCHANGED <<jenkins, restarts, det, waitPod>>
    /\ UNCHANGED <<plugins, outsideReconcile>>

ensureJenkinsDeployment ==
    /\ pc = "deployment"
    /\ \E out \in EnsureDeploymentOutcomes :
          /\ calls' = Append(calls, Call("deployment", out.result, out.err, FALSE, TRUE))
          /\ IF out.err # NoErr
             THEN Return(EmptyResult, NoClient, out.err)
             ELSE Return(out.result, NoClient, NoErr)
    /\ UNCHANGED <<jenkins, restarts, det, waitPod>>
    /\ UNCHANGED <<plugins, outsideReconcile>>

\* Mutant: the requeue the pod ensure asks for is not honoured.
ensureJenkinsMasterPod_IgnoresRequeue ==
    /\ pc = "masterPod"
    /\ \E out \in EnsureMasterPodOutcomes :
          /\ calls' = Append(calls, Call("masterPod", out.result, out.err, FALSE, TRUE))
          /\ IF out.err # NoErr
             THEN Return(EmptyResult, NoClient, out.err)
             ELSE Goto("detect")
    /\ UNCHANGED <<jenkins, restarts, det, waitPod>>
    /\ UNCHANGED <<plugins, outsideReconcile>>

ensureJenkinsMasterPod ==
    /\ pc = "masterPod"
    /\ \E out \in EnsureMasterPodOutcomes :
          /\ calls' = Append(calls, Call("masterPod", out.result, out.err, FALSE, TRUE))
          /\ IF out.err # NoErr
             THEN Return(EmptyResult, NoClient, out.err)
             ELSE IF out.result.requeue
             THEN Return(out.result, NoClient, NoErr)
             ELSE Goto("detect")
    /\ UNCHANGED <<jenkins, restarts, det, waitPod>>
    /\ UNCHANGED <<plugins, outsideReconcile>>

\* The call r.detectJenkinsMasterPodStartingIssues().
DetectStartingIssues ==
    /\ pc = "detect"
    /\ \E podRes \in GetPodResults(DetectPods), now \in Times, listRes \in ListEventsResults :
          LET d == detectJenkinsMasterPodStartingIssues(jenkins, podRes, now, listRes)
          IN  /\ det' = d
              /\ calls' = Append(calls, Call("detect", EmptyResult, d.err, d.stop, TRUE))
    /\ Goto("detectReturned")
    /\ UNCHANGED <<jenkins, restarts, waitPod>>
    /\ UNCHANGED <<plugins, outsideReconcile>>

\* Mutant: a stop is answered with a requeue.
AfterDetect_RequeuesOnStop ==
    /\ pc = "detectReturned"
    /\ det' = [det EXCEPT !.events = {}, !.filteredEvents = {}]
    /\ IF det.err # NoErr
       THEN Return(EmptyResult, NoClient, det.err)
       ELSE IF det.stop
       THEN Return(Result(TRUE, 0), NoClient, NoErr)
       ELSE Goto("wait")
    /\ UNCHANGED <<jenkins, calls, restarts, waitPod>>
    /\ UNCHANGED <<plugins, outsideReconcile>>

\* What Reconcile does with the detector's answer; the detector's event
\* lists are gone with its frame.
AfterDetect ==
    /\ pc = "detectReturned"
    /\ det' = [det EXCEPT !.events = {}, !.filteredEvents = {}]
    /\ IF det.err # NoErr
       THEN Return(EmptyResult, NoClient, det.err)
       ELSE IF det.stop
       THEN Return(Result(FALSE, 0), NoClient, NoErr)
       ELSE Goto("wait")
    /\ UNCHANGED <<jenkins, calls, restarts, waitPod>>
    /\ UNCHANGED <<plugins, outsideReconcile>>

WaitForJenkins ==
    /\ pc = "wait"
    /\ \E podRes \in GetPodResults(Pods), restartErr \in RestartErrors :
          LET w == waitForJenkins(podRes, restartErr)
          IN  /\ waitPod' = IF podRes.err = NoErr THEN <<podRes.pod>> ELSE <<>>
              /\ restarts' = restarts \o w.restarts
              /\ calls' = Append(calls, Call("wait", w.result, w.err, FALSE, TRUE))
              /\ IF w.err # NoErr
                 THEN Return(EmptyResult, NoClient, w.err)
                 ELSE IF w.result.requeue
                 THEN Return(w.result, NoClient, NoErr)
                 ELSE Goto("client")
    /\ UNCHANGED <<jenkins, det>>
    /\ UNCHANGED <<plugins, outsideReconcile>>

\* Mutant: the acquisition error is dropped and the cycle goes on.
GetJenkinsClient_IgnoresError ==
    /\ pc = "client"
    /\ \E out \in GetJenkinsClientOutcomes :
          /\ calls' = Append(calls, Call("client", EmptyResult, out.err, FALSE, TRUE))
          /\ Goto("plugins")
    /\ UNCHANGED <<jenkins, restarts, det, waitPod>>
    /\ UNCHANGED <<plugins, outsideReconcile>>

GetJenkinsClient ==
    /\ pc = "client"
    /\ \E out \in GetJenkinsClientOutcomes :
          /\ calls' = Append(calls, Call("client", EmptyResult, out.err, FALSE, TRUE))
          /\ IF out.err # NoErr
             THEN Return(EmptyResult, NoClient, out.err)
             ELSE Goto("plugins")
    /\ UNCHANGED <<jenkins, restarts, det, waitPod>>
    /\ UNCHANGED <<plugins, outsideReconcile>>

\* Mutant: a mismatch is absorbed, the cycle goes on to the configuration.
verifyPlugins_AbsorbsMismatch ==
    /\ pc = "plugins"
    /\ \E out \in VerifyPluginsOutcomes :
          /\ calls' = Append(calls, Call("plugins", EmptyResult, out.err, FALSE, out.ok))
          /\ plugins' = out.plugins
          /\ IF out.err # NoErr
             THEN Return(EmptyResult, NoClient, out.err)
             ELSE Goto("configuration")
    /\ UNCHANGED <<jenkins, restarts, det, waitPod>>
    /\ UNCHANGED outsideReconcile

verifyPlugins ==
    /\ pc = "plugins"
    /\ \E out \in VerifyPluginsOutcomes, restartErr \in RestartErrors :
          /\ calls' = Append(calls, Call("plugins", EmptyResult, out.err, FALSE, out.ok))
          /\ plugins' = out.plugins
          /\ IF out.err # NoErr
             THEN /\ Return(EmptyResult, NoClient, out.err)
                  /\ UNCHANGED restarts
             ELSE IF ~out.ok
             THEN /\ restarts' = Append(restarts,
                        NewPodRestart(OperatorSource, <<PluginsChangedMessage>>, "Reconcile"))
                  /\ Return(Result(TRUE, 0), NoClient, restartErr)
             ELSE /\ Goto("configuration")
                  /\ UNCHANGED restarts
    /\ UNCHANGED <<jenkins, det, waitPod>>
    /\ UNCHANGED outsideReconcile

\* Mutant: the last stage asks for a requeue whatever the applier answers.
ensureBaseConfiguration_AlwaysRequeues ==
    /\ pc = "configuration"
    /\ \E out \in EnsureBaseConfigurationOutcomes :
          /\ calls' = Append(calls,
                 Call("configuration", Result(out.requeue, 0), out.err, FALSE, TRUE))
          /\ Return(Result(TRUE, 0), JenkinsClient, out.err)
    /\ UNCHANGED <<jenkins, restarts, det, waitPod>>
    /\ UNCHANGED <<plugins, outsideReconcile>>

\* Mutant: a failed configuration returns no client.
ensureBaseConfiguration_NoClientOnError ==
    /\ pc = "configuration"
    /\ \E out \in EnsureBaseConfigurationOutcomes :
          /\ calls' = Append(calls,
                 Call("configuration", Result(out.requeue, 0), out.err, FALSE, TRUE))
          /\ IF out.err # NoErr
             THEN Return(EmptyResult, NoClient, out.err)
             ELSE Return(Result(out.requeue, 0), JenkinsClient, out.err)
    /\ UNCHANGED <<jenkins, restarts, det, waitPod>>
    /\ UNCHANGED <<plugins, outsideReconcile>>

ensureBaseConfiguration ==
    /\ pc = "configuration"
    /\ \E out \in EnsureBaseConfigurationOutcomes :
          /\ calls' = Append(calls,
                 Call("configuration", Result(out.requeue, 0), out.err, FALSE, TRUE))
          /\ Return(Result(out.requeue, 0), JenkinsClient, out.err)
    /\ UNCHANGED <<jenkins, restarts, det, waitPod>>
    /\ UNCHANGED <<plugins, outsideReconcile>>

\* The scheduler invokes the next cycle on a reconciler built from the
\* instance as it is stored then.
NextCycle ==
    /\ pc = "done"
    /\ pc' = "resources"
    /\ jenkins' \in JenkinsInstances
    /\ calls' = <<>>
    /\ restarts' = <<>>
    /\ returned' = NotReturned
    /\ det' = NoDetect
    /\ waitPod' = <<>>
    /\ plugins' = NoPlugins
    /\ UNCHANGED outsideReconcile

Next ==
    \/ ensureResourcesRequiredForJenkinsPod
    \/ ensureJenkinsDeployment
    \/ ensureJenkinsMasterPod
    \/ DetectStartingIssues
    \/ AfterDetect
    \/ WaitForJenkins
    \/ GetJenkinsClient
    \/ verifyPlugins
    \/ ensureBaseConfiguration
    \/ NextCycle

Spec == Init /\ [][Next]_vars

\* ----------------------------------------------------------- properties
StageOrder ==
    <<"resources", "masterPod", "detect", "wait", "client", "plugins", "configuration">>

ListedStages == { StageOrder[i] : i \in 1..Len(StageOrder) }

IsListedStage(c) == c.stage \in ListedStages

ListedCalls == SelectSeq(calls, IsListedStage)

CompletedCleanly(c) ==
    /\ c.err = NoErr
    /\ ~c.result.requeue
    /\ ~c.stop
    /\ c.ok

Invoked(stage) == \E i \in 1..Len(calls) : calls[i].stage = stage

LastCall == calls[Len(calls)]

SinglePodMode == jenkins.useDeployment # <<"true">>

Terminal == [result |-> Result(FALSE, 0), client |-> NoClient, err |-> NoErr]

Requeue5s == [result |-> Result(TRUE, 5), client |-> NoClient, err |-> NoErr]

\* C1: the stages of a cycle run in the listed order, each at most once and
\* none skipped, and a stage runs only after every earlier stage of the
\* cycle returned without error, without requeue and without stop (for
\* the plugin check: without a mismatch).
C1_StagesInOrder ==
    \A i \in 1..Len(ListedCalls) :
        /\ ListedCalls[i].stage = StageOrder[i]
        /\ i < Len(ListedCalls) => CompletedCleanly(ListedCalls[i])

C1_Witness ==
    /\ pc = "done"
    /\ Len(calls) = 7
    /\ LastCall.stage = "configuration"

ErrorStages == {"resources", "masterPod", "detect", "wait", "client", "plugins"}

\* C2: a stage of the six that returns an error is the last stage of its
\* cycle, Reconcile returns that very error, Reconcile requests no restart
\* and the configuration is not applied.
C2_StageErrorAborts ==
    \A i \in 1..Len(calls) :
        (calls[i].stage \in ErrorStages /\ calls[i].err # NoErr) =>
            /\ i = Len(calls)
            /\ pc \in {"detectReturned", "done"}
            /\ pc = "done" => returned.err = calls[i].err
            /\ \A k \in 1..Len(restarts) :
                  restarts[k].by = "waitForJenkins" /\ calls[i].stage = "wait"
            /\ ~Invoked("configuration")

C2_Witness ==
    /\ pc = "done"
    /\ LastCall.stage = "plugins"
    /\ LastCall.err = "pluginsErr"
    /\ returned.err = "pluginsErr"

MismatchDetected ==
    \E i \in 1..Len(calls) :
        calls[i].stage = "plugins" /\ calls[i].err = NoErr /\ ~calls[i].ok

\* C3: a plugin mismatch ends the cycle with exactly one restart request,
\* of source Operator with cause messages, requeue=true and no client;
\* the configuration is not applied, and the cycle never ends with
\* requeue=false and no error.
C3_MismatchRestartsOnce ==
    MismatchDetected =>
        /\ pc = "done"
        /\ Len(restarts) = 1
        /\ restarts[1].source = OperatorSource
        /\ restarts[1].messages # <<>>
        /\ returned.result.requeue
        /\ returned.client = NoClient
        /\ ~Invoked("configuration")
        /\ ~(~returned.result.requeue /\ returned.err = NoErr)

C3_Witness ==
    /\ MismatchDetected
    /\ pc = "done"
    /\ Len(restarts) = 1
    /\ returned.err = NoErr

PendingOverdue ==
    /\ det.called
    /\ det.phase = <<PodPending>>
    /\ jenkins.provisionStartTime # NoTime
    /\ det.now # <<>>
    /\ det.now[1] - jenkins.provisionStartTime[1] > 2

\* C5: for a Pending pod overdue by more than 2 minutes whose events were
\* listed, the detector signals stop exactly when an event passes the
\* filter; with none, and the pod still Pending at the readiness wait,
\* the cycle ends with requeue=true after 5 seconds.
C5_PendingStopsOnlyOnEvents ==
    (PendingOverdue /\ det.listed) =>
        /\ det.stop <=> det.matched > 0
        /\ pc = "detectReturned" =>
              (det.stop <=> filterEvents(det.events, jenkins,
                                         [name |-> JenkinsMasterPodName]) # {})
        /\ (det.matched = 0 /\ pc = "done" /\ waitPod # <<>>
                /\ waitPod[1].phase = PodPending) => returned = Requeue5s

C5_Witness ==
    /\ PendingOverdue
    /\ det.listed
    /\ det.matched = 0
    /\ ~det.stop
    /\ pc = "done"
    /\ waitPod # <<>>
    /\ waitPod[1].phase = PodPending
    /\ returned = Requeue5s

\* C6: the detector stops on the pending timeout only if one of the listed
\* events is not older than the provisioning start, is not of type Normal
\* and concerns the managed pod.
C6_OnlyManagedPodEventsStop ==
    (pc = "detectReturned" /\ det.listed /\ det.stop) =>
        \E e \in det.events :
            /\ e.lastTimestamp >= jenkins.provisionStartTime[1]
            /\ e.type # EventTypeNormal
            /\ e.involved = JenkinsMasterPodName

NoneTerminated(p) ==
    \A i \in 1..Len(p.containerStatuses) : ~p.containerStatuses[i].terminated

SomeNotReady(p) ==
    \E i \in 1..Len(p.containerStatuses) : ~p.containerStatuses[i].ready

NotYetReady(p) ==
    \/ p.terminating
    \/ p.phase # PodRunning
    \/ (NoneTerminated(p) /\ SomeNotReady(p))

\* C7: for a pod that is terminating, or not Running, or Running with no
\* terminated container and one not ready, the readiness stage returns
\* requeue=true after exactly 5 seconds and no error, no restart is
\* requested, and the cycle ends there with no client.
C7_NotReadyRequeues ==
    (waitPod # <<>> /\ NotYetReady(waitPod[1])) =>
        /\ LastCall.stage = "wait"
        /\ LastCall.result = Result(TRUE, 5)
        /\ LastCall.err = NoErr
        /\ restarts = <<>>
        /\ ~Invoked("client")
        /\ pc = "done"
        /\ returned = Requeue5s

C7_Witness ==
    /\ waitPod # <<>>
    /\ ~waitPod[1].terminating
    /\ waitPod[1].phase = PodRunning
    /\ Len(waitPod[1].containerStatuses) = 2
    /\ NoneTerminated(waitPod[1])
    /\ SomeNotReady(waitPod[1])
    /\ waitPod[1].containerStatuses[1].ready
    /\ returned = Requeue5s

ContainerTerminated(p) ==
    /\ p.phase = PodRunning
    /\ ~p.terminating
    /\ ~NoneTerminated(p)

\* C8: for a Running pod, not terminating, with a terminated container,
\* the readiness stage requests exactly one restart, of source Kubernetes
\* with cause messages, returns requeue=true, and is the last stage of the
\* cycle.
C8_TerminatedRestartsOnce ==
    (waitPod # <<>> /\ ContainerTerminated(waitPod[1])) =>
        /\ Len(restarts) = 1
        /\ restarts[1].source = KubernetesSource
        /\ restarts[1].by = "waitForJenkins"
        /\ restarts[1].messages # <<>>
        /\ LastCall.stage = "wait"
        /\ LastCall.result.requeue
        /\ pc = "done"
        /\ returned.client = NoClient

C8_Witness ==
    /\ waitPod # <<>>
    /\ ContainerTerminated(waitPod[1])
    /\ Len(waitPod[1].containerStatuses) = 2
    /\ \A i \in 1..2 : waitPod[1].containerStatuses[i].terminated
    /\ Len(restarts) = 1
    /\ pc = "done"

AllReady(p) ==
    /\ ~p.terminating
    /\ p.phase = PodRunning
    /\ \A i \in 1..Len(p.containerStatuses) :
          ~p.containerStatuses[i].terminated /\ p.containerStatuses[i].ready

\* C9: a client is acquired, and a client is returned, only in a cycle
\* whose readiness wait read a pod not terminating, Running, with no
\* container terminated and every container ready.
C9_ClientOnlyWhenReady ==
    (Invoked("client") \/ returned.client # NoClient) =>
        /\ waitPod # <<>>
        /\ AllReady(waitPod[1])

C9_Witness ==
    /\ pc = "done"
    /\ returned.client = JenkinsClient
    /\ returned.err = NoErr
    /\ waitPod # <<>>
    /\ Len(waitPod[1].containerStatuses) = 2

\* C10 as stated: in single-pod mode the outcome (no error, requeue=false,
\* no client) occurs only with no provisioning-start timestamp.
C10_TerminalOnlyWithoutRecord ==
    (pc = "done" /\ SinglePodMode /\ returned = Terminal) =>
        jenkins.provisionStartTime = NoTime

\* C10 amended: in single-pod mode that outcome occurs only with no
\* provisioning-start timestamp, or for a Pending pod overdue by more than
\* 2 minutes with an event that passed the filter.
C10_TerminalOnlyOnStop ==
    (pc = "done" /\ SinglePodMode /\ returned = Terminal) =>
        \/ jenkins.provisionStartTime = NoTime
        \/ (PendingOverdue /\ det.listed /\ det.matched > 0)

C10_Witness ==
    /\ pc = "done"
    /\ SinglePodMode
    /\ returned = Terminal
    /\ PendingOverdue
    /\ det.matched > 0

SinglePodStages == {"masterPod", "detect", "wait", "client", "plugins", "configuration"}

\* C11: when the annotation jenkins.io/use-deployment is "true", a cycle
\* whose supporting resources were ensured ensures the deployment and returns
\* right after it with no client: no single-pod stage runs, and when the
\* deployment stage returned no error Reconcile returns that stage's result
\* (a requeue included) with no error.  With any other value, or none, the
\* deployment is never ensured and the pod is (single-pod mode).
C11_DeploymentModeReturnsEarly ==
    /\ jenkins.useDeployment = <<"true">> =>
          /\ \A st \in SinglePodStages : ~Invoked(st) /\ pc # st
          /\ (pc = "done" /\ calls[1].err = NoErr) =>
                /\ Len(calls) = 2
                /\ LastCall.stage = "deployment"
                /\ returned.client = NoClient
                /\ LastCall.err = NoErr =>
                      returned = [result |-> LastCall.result, client |-> NoClient,
                                  err |-> NoErr]
    /\ jenkins.useDeployment # <<"true">> =>
          /\ ~Invoked("deployment") /\ pc # "deployment"
          /\ (Len(calls) >= 1 /\ calls[1].err = NoErr /\ pc = "done") =>
                Invoked("masterPod")

C11_Witness ==
    /\ pc = "done"
    /\ jenkins.useDeployment = <<"true">>
    /\ LastCall.stage = "deployment"
    /\ LastCall.result.requeue
    /\ returned.result.requeue
    /\ returned.err = NoErr

\* b lists the elements of a in some order.
IsPermutationOf(a, b) ==
    /\ Len(a) = Len(b)
    /\ \E f \in [1..Len(a) -> 1..Len(a)] :
          /\ \A i, j \in 1..Len(a) : f[i] = f[j] => i = j
          /\ \A i \in 1..Len(a) : b[i] = a[f[i]]

\* C12: when the installed plugins were fetched, an installed list that is
\* a permutation of the desired list is no drift and the cycle requests no
\* restart; any other installed list is drift and the cycle requests exactly
\* one restart.
C12_DriftIsOrderIndependent ==
    plugins.fetched =>
        IF IsPermutationOf(plugins.desired, plugins.installed)
        THEN ~MismatchDetected /\ restarts = <<>>
        ELSE MismatchDetected /\ Len(restarts) = 1

C12_Witness ==
    /\ plugins.fetched
    /\ Len(plugins.desired) = 2
    /\ plugins.desired # plugins.installed
    /\ IsPermutationOf(plugins.desired, plugins.installed)
    /\ pc = "done"
    /\ Invoked("configuration")

(***************************************************************************)
(* The configuration applier: ensureBaseConfiguration with the payloads    *)
(* and their checksum records, cycle after cycle.                          *)
(***************************************************************************)

HasSuffix(s, suffix) ==
    /\ Len(suffix) <= Len(s)
    /\ SubSeq(s, Len(s) - Len(suffix) + 1, Len(s)) = suffix

\* Mutant: every payload passes the filter.
IsGroovyScript_Any(name) == TRUE

\* The filter ensureBaseConfiguration hands to the applier.
IsGroovyScript(name) == HasSuffix(name, GroovySuffix)

\* Mutant: the applier's requeue is dropped.
EnsureBaseResult_NoRequeue(requeue, err) == [result |-> Result(FALSE, 0), err |-> err]

\* What ensureBaseConfiguration returns for the applier's (requeue, err).
EnsureBaseResult(requeue, err) == [result |-> Result(requeue, 0), err |-> err]

StoreErrors == {NoErr, "groovyErr"}

\* One pass of the applier over the payloads data with the checksum records
\* records, when executing the payloads of failing fails and reading the
\* records answers storeErr: every payload passing the filter whose digest
\* differs from its record is executed, in order, a failure stopping
\* nothing; the record of each payload executed successfully becomes its
\* digest; requeue when a payload still differs.
Ensure(data, records, failing, storeErr) ==
    LET Differs(n) == records[n] # <<Digest(data[n])>>
        Failing(n) == n \in failing
        submitted == SelectSeq(PayloadOrder, IsGroovyScript)
        executed == IF storeErr = NoErr THEN SelectSeq(submitted, Differs) ELSE <<>>
        failed == SelectSeq(executed, Failing)
    IN  [executed |-> executed,
         failed   |-> { failed[i] : i \in 1..Len(failed) },
         records  |-> [n \in PayloadNames |->
                          IF (\E i \in 1..Len(executed) : executed[i] = n) /\ n \notin failing
                          THEN <<Digest(data[n])>> ELSE records[n]],
         requeue  |-> failed # <<>>,
         err      |-> storeErr]

outsideApply ==
    <<reconcileVars, rbacVars, serviceVars, routeVars, syncVars,
      listenVars, routerVars, raceVars, secretVars, liveVars, updVars>>

InitApply ==
    /\ ReconcileIdle
    /\ ApplyIdle
    /\ IdleOutside("apply")

ApplyConfiguration ==
    /\ \E failing \in SUBSET PayloadNames, storeErr \in StoreErrors :
          LET e == Ensure(payloads, checksums, failing, storeErr)
              out == EnsureBaseResult(e.requeue, e.err)
          IN  /\ checksums' = e.records
              /\ applyPass' =
                    [ran |-> TRUE, data |-> payloads, before |-> checksums,
                     executed |-> e.executed, failed |-> e.failed,
                     result |-> out.result, err |-> out.err,
                     prior |-> [ran |-> applyPass.ran,
                                sameData |-> applyPass.ran /\ payloads = applyPass.data,
                                failed |-> applyPass.failed, err |-> applyPass.err]]
    /\ UNCHANGED payloads
    /\ UNCHANGED outsideApply

\* Between two cycles the content of a payload is changed.
EditPayload ==
    /\ \E n \in PayloadNames, c \in Contents :
          /\ c # payloads[n]
          /\ payloads' = [payloads EXCEPT ![n] = c]
    /\ UNCHANGED <<checksums, applyPass>>
    /\ UNCHANGED outsideApply

NextApply ==
    \/ ApplyConfiguration
    \/ EditPayload

SpecApply == InitApply /\ [][NextApply]_vars

ExecutionCount(n) ==
    Cardinality({ i \in 1..Len(applyPass.executed) : applyPass.executed[i] = n })

ExecutedPayloads == { n \in PayloadNames : ExecutionCount(n) > 0 }

\* The payload's digest equalled its checksum record when the pass began.
DigestMatched(n) == applyPass.before[n] = <<Digest(applyPass.data[n])>>

EndsWithGroovy(n) == HasSuffix(n, <<".", "g", "r", "o", "o", "v", "y">>)

\* C13: in every pass, a payload whose digest equals its checksum record is
\* not executed and its record is left as it was; a payload named *.groovy
\* whose digest differs from its record (the records being readable) is
\* executed exactly once and, when the execution succeeds, its record
\* becomes the new digest; no payload with another name is ever executed.
C13_UnchangedPayloadIsSkipped ==
    applyPass.ran =>
        \A n \in PayloadNames :
            /\ DigestMatched(n) =>
                  ExecutionCount(n) = 0 /\ checksums[n] = applyPass.before[n]
            /\ (~DigestMatched(n) /\ EndsWithGroovy(n) /\ applyPass.err = NoErr) =>
                  /\ ExecutionCount(n) = 1
                  /\ n \notin applyPass.failed =>
                        checksums[n] = <<Digest(applyPass.data[n])>>
            /\ ExecutionCount(n) > 0 => EndsWithGroovy(n)

\* A pass repeated over a changed and already applied content executes
\* nothing.
C13_Witness ==
    /\ applyPass.ran
    /\ applyPass.prior.ran
    /\ applyPass.prior.sameData
    /\ applyPass.data[PayloadOrder[1]] = "Y"
    /\ applyPass.before[PayloadOrder[1]] = <<Digest("Y")>>
    /\ applyPass.executed = <<>>
    /\ checksums = applyPass.before

\* C14: in a pass where the execution of a payload fails, every *.groovy
\* payload whose digest differs is still executed, the record of a failed
\* payload is left as it was, and the pass returns requeue=true; a pass that
\* follows a pass over the same contents executes exactly the payloads which
\* failed in it, and no pass executes a payload whose digest matches.
C14_FailureDoesNotBlockTheRest ==
    (applyPass.ran /\ applyPass.err = NoErr) =>
        /\ applyPass.failed # {} =>
              /\ \A n \in PayloadNames :
                    (EndsWithGroovy(n) /\ ~DigestMatched(n)) => n \in ExecutedPayloads
              /\ \A n \in applyPass.failed : checksums[n] = applyPass.before[n]
              /\ applyPass.result.requeue
        /\ (applyPass.prior.ran /\ applyPass.prior.err = NoErr /\ applyPass.prior.sameData) =>
              ExecutedPayloads = applyPass.prior.failed
        /\ \A n \in ExecutedPayloads : ~DigestMatched(n)

\* The first script fails, the second one is applied all the same.
C14_Witness ==
    /\ applyPass.ran
    /\ applyPass.executed = <<PayloadOrder[1], PayloadOrder[2]>>
    /\ applyPass.failed = {PayloadOrder[1]}
    /\ checksums[PayloadOrder[1]] = applyPass.before[PayloadOrder[1]]
    /\ checksums[PayloadOrder[2]] = <<Digest(applyPass.data[PayloadOrder[2]])>>
    /\ applyPass.result.requeue
    /\ applyPass.err = NoErr

(***************************************************************************)
(* The extra role bindings: ensureExtraRBAC, pass after pass, for either   *)
(* instance of the namespace.                                              *)
(***************************************************************************)

Min(a, b) == IF a <= b THEN a ELSE b

getExtraRoleBindingName(serviceAccountName, roleRef) ==
    LET typeName == IF roleRef.kind = "ClusterRole" THEN <<"c", "r">> ELSE <<"r">>
    IN  serviceAccountName \o <<"-">> \o typeName \o <<"-">> \o roleRef.name

\* Mutant: every binding of the namespace is taken for an extra binding.
HasManagedPrefix_Any(name, instanceName) == TRUE

\* The binding's name starts with "<instance>-r-" or "<instance>-cr-".
HasManagedPrefix(name, instanceName) ==
    \/ HasPrefix(name, getExtraRoleBindingName(instanceName, [kind |-> "Role", name |-> <<>>]))
    \/ HasPrefix(name, getExtraRoleBindingName(instanceName, [kind |-> "ClusterRole", name |-> <<>>]))

\* Mutant: every binding is taken for a desired one.
found_Always(name, instanceName, roles) == TRUE

\* Mutant: no binding is taken for a desired one.
found_Never(name, instanceName, roles) == FALSE

\* The binding's name is the name computed for a role of the list.
found(name, instanceName, roles) ==
    \E i \in 1..Len(roles) : name = getExtraRoleBindingName(instanceName, roles[i])

\* The platform call of the pass that fails, if any: the index-th Create
\* (with an error other than AlreadyExists), the List, or the Delete of the
\* binding called name.
Faults(roles) ==
    {NoFault}
        \cup { [at |-> "create", index |-> i, name |-> <<>>] : i \in 1..Len(roles) }
        \cup { [at |-> "list", index |-> 0, name |-> <<>>] }
        \cup { [at |-> "delete", index |-> 0, name |-> n] : n \in ExtraBindingNames }

\* Mutant: a Create answered "already exists" aborts the pass like any
\* other Create error.
ensureExtraRBAC_ExistsIsAnError(store, meta, roles, fault) ==
    LET names == [i \in 1..Len(roles) |-> getExtraRoleBindingName(meta.name, roles[i])]
        Exists(i) ==
            \/ Binding(meta.namespace, names[i]) \in store
            \/ \E j \in 1..(i - 1) : names[j] = names[i]
        stops == { i \in 1..Len(roles) :
                      Exists(i) \/ (fault.at = "create" /\ fault.index = i) }
        stopAt == IF stops = {} THEN Len(roles) + 1
                  ELSE CHOOSE i \in stops : \A j \in stops : i <= j
        attempted == SubSeq(names, 1, Min(stopAt, Len(roles)))
        made == { Binding(meta.namespace, names[i]) : i \in 1..(stopAt - 1) }
        afterCreate == store \cup made
        IsListed(n) == Binding(meta.namespace, n) \in afterCreate
        Stale(n) == HasManagedPrefix(n, meta.name) /\ ~found(n, meta.name, roles)
        stale == SelectSeq(SelectSeq(BindingOrder, IsListed), Stale)
        failing == { i \in 1..Len(stale) : fault.at = "delete" /\ stale[i] = fault.name }
        failAt == IF failing = {} THEN Len(stale) + 1 ELSE CHOOSE i \in failing : TRUE
        deleted == { Binding(meta.namespace, stale[i]) : i \in 1..(failAt - 1) }
        Pass(after, err, deleteCalls, gone) ==
            [store |-> after, err |-> err, attempted |-> attempted,
             created |-> made \ store, deleteCalls |-> deleteCalls, deleted |-> gone]
    IN  IF stopAt <= Len(roles) THEN Pass(afterCreate, "createErr", <<>>, {})
        ELSE IF fault.at = "list" THEN Pass(afterCreate, "listErr", <<>>, {})
        ELSE Pass(afterCreate \ deleted,
                  IF failAt <= Len(stale) THEN "deleteErr" ELSE NoErr,
                  SubSeq(stale, 1, Min(failAt, Len(stale))), deleted)

ensureExtraRBAC(store, meta, roles, fault) ==
    LET names == [i \in 1..Len(roles) |-> getExtraRoleBindingName(meta.name, roles[i])]
        stopAt == IF fault.at = "create" THEN fault.index ELSE Len(roles) + 1
        attempted == SubSeq(names, 1, Min(stopAt, Len(roles)))
        made == { Binding(meta.namespace, names[i]) : i \in 1..(stopAt - 1) }
        afterCreate == store \cup made
        IsListed(n) == Binding(meta.namespace, n) \in afterCreate
        Stale(n) == HasManagedPrefix(n, meta.name) /\ ~found(n, meta.name, roles)
        stale == SelectSeq(SelectSeq(BindingOrder, IsListed), Stale)
        failing == { i \in 1..Len(stale) : fault.at = "delete" /\ stale[i] = fault.name }
        failAt == IF failing = {} THEN Len(stale) + 1 ELSE CHOOSE i \in failing : TRUE
        deleted == { Binding(meta.namespace, stale[i]) : i \in 1..(failAt - 1) }
        Pass(after, err, deleteCalls, gone) ==
            [store |-> after, err |-> err, attempted |-> attempted,
             created |-> made \ store, deleteCalls |-> deleteCalls, deleted |-> gone]
    IN  IF stopAt <= Len(roles) THEN Pass(afterCreate, "createErr", <<>>, {})
        ELSE IF fault.at = "list" THEN Pass(afterCreate, "listErr", <<>>, {})
        ELSE Pass(afterCreate \ deleted,
                  IF failAt <= Len(stale) THEN "deleteErr" ELSE NoErr,
                  SubSeq(stale, 1, Min(failAt, Len(stale))), deleted)

outsideRBAC ==
    <<reconcileVars, applyVars, serviceVars, routeVars, syncVars,
      listenVars, routerVars, raceVars, secretVars, liveVars, updVars>>

InitRBAC ==
    /\ ReconcileIdle
    /\ bindings \in BindingStores
    /\ rbacPass = NoRBACPass
    /\ IdleOutside("rbac")

EnsureExtraRBAC ==
    /\ \E meta \in Instances, roles \in RoleLists :
          \E fault \in Faults(roles) :
             LET pass == ensureExtraRBAC(bindings, meta, roles, fault)
             IN  /\ bindings' = pass.store
                 /\ rbacPass' =
                       [ran |-> TRUE, meta |-> meta, roles |-> roles, before |-> bindings,
                        fault |-> fault, err |-> pass.err, attempted |-> pass.attempted,
                        created |-> pass.created, deleteCalls |-> pass.deleteCalls,
                        deleted |-> pass.deleted]
    /\ UNCHANGED outsideRBAC

NextRBAC == EnsureExtraRBAC

SpecRBAC == InitRBAC /\ [][NextRBAC]_vars

\* The name <instance>-<cr|r>-<role> of the extra binding of a role.
ComputedName(instanceName, roleRef) ==
    IF roleRef.kind = "ClusterRole"
    THEN instanceName \o <<"-", "c", "r", "-">> \o roleRef.name
    ELSE instanceName \o <<"-", "r", "-">> \o roleRef.name

DesiredNames(instanceName, roles) ==
    { ComputedName(instanceName, roles[i]) : i \in 1..Len(roles) }

CarriesManagedPrefix(name, instanceName) ==
    \/ HasPrefix(name, instanceName \o <<"-", "r", "-">>)
    \/ HasPrefix(name, instanceName \o <<"-", "c", "r", "-">>)

\* The names of the bindings of the instance's namespace which carry its
\* managed prefix.
ManagedNames(store, meta) ==
    { b.name : b \in { c \in store : /\ c.namespace = meta.namespace
                                      /\ CarriesManagedPrefix(c.name, meta.name) } }

\* Every binding a pass removed or asked the platform to remove.
RemovedBindings ==
    rbacPass.deleted
        \cup (rbacPass.before \ bindings)
        \cup { Binding(rbacPass.meta.namespace, rbacPass.deleteCalls[i]) :
                  i \in 1..Len(rbacPass.deleteCalls) }

\* C15: after a pass that returned no error, the names of the bindings of
\* the instance's namespace carrying its managed prefix are exactly the
\* names computed from the desired role list; and when the store held the
\* bindings of the list and of one more role before the pass, it holds one
\* managed binding fewer after it.
C15_ManagedBindingsEqualDesired ==
    (rbacPass.ran /\ rbacPass.err = NoErr) =>
        /\ ManagedNames(bindings, rbacPass.meta)
              = DesiredNames(rbacPass.meta.name, rbacPass.roles)
        /\ \A r \in RoleRefs :
              LET desired == DesiredNames(rbacPass.meta.name, rbacPass.roles)
                  removed == ComputedName(rbacPass.meta.name, r)
              IN  (/\ removed \notin desired
                   /\ ManagedNames(rbacPass.before, rbacPass.meta) = desired \cup {removed}) =>
                      Cardinality(ManagedNames(bindings, rbacPass.meta))
                          = Cardinality(ManagedNames(rbacPass.before, rbacPass.meta)) - 1

\* The store held the bindings of two roles, one of them is no longer
\* desired, and the pass deleted its binding.
C15_Witness ==
    /\ rbacPass.ran
    /\ rbacPass.err = NoErr
    /\ Len(rbacPass.roles) = 1
    /\ Cardinality(ManagedNames(rbacPass.before, rbacPass.meta)) = 2
    /\ DesiredNames(rbacPass.meta.name, rbacPass.roles)
          \subseteq ManagedNames(rbacPass.before, rbacPass.meta)
    /\ Cardinality(rbacPass.deleted) = 1
    /\ Cardinality(ManagedNames(bindings, rbacPass.meta)) = 1

\* C16: a binding the pass deletes, or asks the platform to delete, lies in
\* the instance's namespace, carries the instance's managed prefix, is not
\* named like the binding of a desired role and is not the instance's base
\* binding; the bindings of other namespaces are as they were.
C16_CleanupIsScoped ==
    rbacPass.ran =>
        /\ \A b \in RemovedBindings :
              /\ b.namespace = rbacPass.meta.namespace
              /\ CarriesManagedPrefix(b.name, rbacPass.meta.name)
              /\ b.name \notin DesiredNames(rbacPass.meta.name, rbacPass.roles)
              /\ b.name # rbacPass.meta.name
        /\ { b \in bindings : b.namespace # rbacPass.meta.namespace }
              = { b \in rbacPass.before : b.namespace # rbacPass.meta.namespace }

\* A pass deleted a stale binding while a desired one, the base bindings,
\* the foreign one and the one of the other namespace stayed.
C16_Witness ==
    /\ rbacPass.ran
    /\ rbacPass.err = NoErr
    /\ rbacPass.deleted # {}
    /\ rbacPass.roles # <<>>
    /\ rbacPass.created = {}
    /\ FixedBindings \subseteq bindings

\* C17: a pass for one instance deletes no extra binding computed for the
\* other instance of the namespace.
C17_OtherInstanceUntouched ==
    rbacPass.ran =>
        \A other \in Instances : \A r \in RoleRefs :
            other # rbacPass.meta =>
                Binding(other.namespace, ComputedName(other.name, r)) \notin RemovedBindings

(***************************************************************************)
(* The services: createService, call after call, over a store whose        *)
(* services may have been edited by hand.                                  *)
(***************************************************************************)

\* resources.UpdateService: the ports are those of the desired service
\* configuration.
UpdateService(service, config, targetPort) ==
    [service EXCEPT !.port = config.port, !.targetPort = targetPort]

\* Mutant: the stored selector is kept.
forceSelector_Keeps(service, labels) == service

\* service.Spec.Selector = meta.Labels
forceSelector(service, labels) == [service EXCEPT !.selector = labels]

Write(op, kind, name, changed) ==
    [op |-> op, kind |-> kind, name |-> name, changed |-> changed]

ServiceFaults == {"none", "get", "create", "update"}

\* createService for the service called name, stored holding it (<<>> when
\* the store has none); fault names the platform call that fails.
createService(stored, name, labels, config, targetPort, fault) ==
    LET fresh == UpdateService([selector |-> labels, port |-> 0, targetPort |-> 0],
                               config, targetPort)
        service == IF stored = <<>> THEN fresh ELSE stored[1]
        createWrites ==
            IF stored = <<>> THEN <<Write("create", "Service", name, fault # "create")>>
            ELSE <<>>
        afterCreate == IF stored = <<>> /\ fault # "create" THEN <<fresh>> ELSE stored
        updated == UpdateService(forceSelector(service, labels), config, targetPort)
    IN  IF fault = "get"
        THEN [stored |-> stored, err |-> "getErr", writes |-> <<>>]
        ELSE IF stored = <<>> /\ fault = "create"
        THEN [stored |-> stored, err |-> "createErr", writes |-> createWrites]
        ELSE IF fault = "update"
        THEN [stored |-> afterCreate, err |-> "updateErr",
              writes |-> Append(createWrites, Write("update", "Service", name, FALSE))]
        ELSE [stored |-> <<updated>>, err |-> NoErr,
              writes |-> Append(createWrites,
                                Write("update", "Service", name, <<updated>> # afterCreate))]

outsideService ==
    <<reconcileVars, applyVars, rbacVars, routeVars, syncVars,
      listenVars, routerVars, raceVars, secretVars, liveVars, updVars>>

InitService ==
    /\ ReconcileIdle
    /\ services \in [ServiceNames -> StoredServices]
    /\ servicePass = NoServicePass
    /\ IdleOutside("service")

CreateService ==
    /\ \E name \in ServiceNames, config \in ServiceConfigs, fault \in ServiceFaults :
          LET call == createService(services[name], name, Labels, config,
                                    TargetPort(name), fault)
          IN  /\ services' = [services EXCEPT ![name] = call.stored]
              /\ servicePass' =
                    [ran |-> TRUE, name |-> name, config |-> config,
                     before |-> services[name], after |-> call.stored,
                     err |-> call.err, writes |-> call.writes]
    /\ UNCHANGED outsideService

\* Somebody edits the selector of a stored service by hand.
EditSelector ==
    /\ \E name \in ServiceNames, selector \in Selectors :
          /\ services[name] # <<>>
          /\ services[name][1].selector # selector
          /\ services' = [services EXCEPT ![name] = <<[@[1] EXCEPT !.selector = selector]>>]
    /\ UNCHANGED servicePass
    /\ UNCHANGED outsideService

NextService ==
    \/ CreateService
    \/ EditSelector

SpecService == InitService /\ [][NextService]_vars

\* C19: after a call of createService that returned no error, the stored
\* service's selector is the instance's label set, whatever it was before,
\* and its ports are those computed from the desired service configuration.
C19_SelectorForcedBack ==
    (servicePass.ran /\ servicePass.err = NoErr) =>
        /\ servicePass.after # <<>>
        /\ servicePass.after[1].selector = {"app=jenkins-operator", "jenkins-cr=a"}
        /\ servicePass.after[1].port = servicePass.config.port
        /\ servicePass.after[1].targetPort
              = (IF servicePass.name = "http" THEN 8080 ELSE 50000)

\* A service edited by hand, with other ports, is put right.
C19_Witness ==
    /\ servicePass.ran
    /\ servicePass.err = NoErr
    /\ servicePass.before # <<>>
    /\ servicePass.before[1].selector = {"app=other"}
    /\ servicePass.before[1].port # servicePass.config.port
    /\ services[servicePass.name] = servicePass.after

(***************************************************************************)
(* The synchronizer: the steps of ensureResourcesRequiredForJenkinsPod     *)
(* which write role bindings, services and the route, pass after pass.     *)
(***************************************************************************)

\* Mutant: the cache is not consulted.
IsRouteAPIAvailable_AlwaysProbes(checked, available, probeOK) ==
    [checked |-> TRUE, available |-> probeOK, probed |-> TRUE, result |-> probeOK]

\* IsRouteAPIAvailable with the package variables checked and available;
\* probeOK: discovery.ServerSupportsVersion returns no error.
IsRouteAPIAvailable(checked, available, probeOK) ==
    IF checked
    THEN [checked |-> checked, available |-> available, probed |-> FALSE,
          result |-> available]
    ELSE [checked |-> TRUE, available |-> probeOK, probed |-> TRUE, result |-> probeOK]

\* UpdateRoute: the target name is set when it differs from the service
\* name; the target port is replaced by intstr.FromInt(port) when its IntVal
\* differs from the port.  actual.Spec.Port is dereferenced: on a route
\* without port the call panics and returns nothing.
UpdateRoute(actual, serviceName, port) ==
    IF actual.port = <<>>
    THEN [panic |-> TRUE, route |-> actual]
    ELSE [panic |-> FALSE,
          route |-> [actual EXCEPT
                        !.to = IF @ # serviceName THEN serviceName ELSE @,
                        !.port = IF @[1].targetPort.intVal # port
                                 THEN <<[targetPort |-> FromInt(port)]>>
                                 ELSE @]]

RouteFaults == {"none", "get", "create", "update"}

\* createRoute: the route is fetched, created when absent, and updated.
createRoute(stored, serviceName, port, fault) ==
    LET fresh == UpdateRoute([to |-> serviceName,
                              port |-> <<[targetPort |-> FromString("")]>>,
                              host |-> "h1"],
                             serviceName, port).route
        actual == IF stored = <<>> THEN fresh ELSE stored[1]
        createWrites ==
            IF stored = <<>> THEN <<Write("create", "Route", "route", fault # "create")>>
            ELSE <<>>
        afterCreate == IF stored = <<>> /\ fault # "create" THEN <<fresh>> ELSE stored
        updated == UpdateRoute(actual, serviceName, port).route
    IN  IF fault = "get"
        THEN [stored |-> stored, err |-> "getErr", writes |-> <<>>]
        ELSE IF stored = <<>> /\ fault = "create"
        THEN [stored |-> stored, err |-> "createErr", writes |-> createWrites]
        ELSE IF fault = "update"
        THEN [stored |-> afterCreate, err |-> "updateErr",
              writes |-> Append(createWrites, Write("update", "Route", "route", FALSE))]
        ELSE [stored |-> <<updated>>, err |-> NoErr,
              writes |-> Append(createWrites,
                                Write("update", "Route", "route", <<updated>> # afterCreate))]

Snapshot == [bindings |-> bindings, services |-> services, route |-> route]

outsideSync ==
    <<reconcileVars, applyVars, rbacPass, servicePass,
      listenVars, routerVars, raceVars, secretVars, liveVars, updVars>>

InitSync ==
    /\ ReconcileIdle
    /\ RouteIdle
    /\ SyncIdle
    /\ IdleOutside("sync")

\* The step that follows a step which returned err.
SyncGoto(stage, err) ==
    /\ syncPc' = IF err = NoErr THEN stage ELSE "done"
    /\ syncErr' = err
    /\ UNCHANGED <<desiredState, second, touched, syncBefore, passes>>

StartSync ==
    /\ syncPc \in {"idle", "done"}
    /\ passes < MaxPasses
    /\ \E d \in DesiredStates :
          /\ desiredState' = d
          /\ second' = (syncPc = "done" /\ syncErr = NoErr /\ d = desiredState /\ ~touched)
    /\ syncPc' = "rbac"
    /\ touched' = FALSE
    /\ syncLog' = <<>>
    /\ syncErr' = NoErr
    /\ syncBefore' = Snapshot
    /\ passes' = passes + 1
    /\ UNCHANGED <<bindings, services, routeVars>>
    /\ UNCHANGED outsideSync

SyncExtraRBAC ==
    /\ syncPc = "rbac"
    /\ \E fault \in Faults(desiredState.roles) :
          LET pass == ensureExtraRBAC(bindings, SyncMeta, desiredState.roles, fault)
              att == pass.attempted
              creates == [i \in 1..Len(att) |->
                            Write("create", "RoleBinding", att[i],
                                  /\ Binding(SyncMeta.namespace, att[i]) \in pass.created
                                  /\ \A j \in 1..(i - 1) : att[j] # att[i])]
              deletes == [i \in 1..Len(pass.deleteCalls) |->
                            Write("delete", "RoleBinding", pass.deleteCalls[i],
                                  Binding(SyncMeta.namespace, pass.deleteCalls[i])
                                      \in pass.deleted)]
          IN  /\ bindings' = pass.store
              /\ syncLog' = syncLog \o creates \o deletes
              /\ SyncGoto("http", pass.err)
    /\ UNCHANGED <<services, routeVars>>
    /\ UNCHANGED outsideSync

SyncHTTPService ==
    /\ syncPc = "http"
    /\ \E fault \in ServiceFaults :
          LET call == createService(services["http"], "http", Labels,
                                    desiredState.service, TargetPort("http"), fault)
          IN  /\ services' = [services EXCEPT !["http"] = call.stored]
              /\ syncLog' = syncLog \o call.writes
              /\ SyncGoto("slave", call.err)
    /\ UNCHANGED <<bindings, routeVars>>
    /\ UNCHANGED outsideSync

SyncSlaveService ==
    /\ syncPc = "slave"
    /\ \E fault \in ServiceFaults :
          LET call == createService(services["slave"], "slave", Labels,
                                    desiredState.slaveService, TargetPort("slave"), fault)
          IN  /\ services' = [services EXCEPT !["slave"] = call.stored]
              /\ syncLog' = syncLog \o call.writes
              /\ SyncGoto("route", call.err)
    /\ UNCHANGED <<bindings, routeVars>>
    /\ UNCHANGED outsideSync

SyncRoute ==
    /\ syncPc = "route"
    /\ \E discoveryOK \in BOOLEAN, fault \in RouteFaults :
          LET check == IsRouteAPIAvailable(routeAPIChecked, isRouteAPIAvailable,
                                           routeAPIInstalled /\ discoveryOK)
              call == IF check.result
                      THEN createRoute(route, "http", desiredState.service.port, fault)
                      ELSE [stored |-> route, err |-> NoErr, writes |-> <<>>]
          IN  /\ routeAPIChecked' = check.checked
              /\ isRouteAPIAvailable' = check.available
              /\ routeHistory' =
                    [calls |-> routeHistory.calls + 1,
                     probes |-> routeHistory.probes + (IF check.probed THEN 1 ELSE 0),
                     first |-> IF check.probed /\ routeHistory.probes = 0
                               THEN <<routeAPIInstalled /\ discoveryOK>>
                               ELSE routeHistory.first,
                     last |-> <<check.result>>,
                     ensured |-> check.result]
              /\ route' = call.stored
              /\ syncLog' = syncLog \o call.writes
              /\ SyncGoto("done", call.err)
    /\ UNCHANGED <<bindings, services, routeAPIInstalled>>
    /\ UNCHANGED outsideSync

\* Between two passes the route API is installed on the platform, or removed.
ChangeRouteAPI ==
    /\ syncPc \in {"idle", "done"}
    /\ routeAPIInstalled' = ~routeAPIInstalled
    /\ UNCHANGED <<routeAPIChecked, isRouteAPIAvailable, route, routeHistory>>
    /\ UNCHANGED <<bindings, services, syncVars>>
    /\ UNCHANGED outsideSync

\* Between two passes somebody edits the selector of the HTTP service.
ChangeStore ==
    /\ syncPc = "done"
    /\ services["http"] # <<>>
    /\ services["http"][1].selector = Labels
    /\ services' = [services EXCEPT !["http"] = <<[@[1] EXCEPT !.selector = {"app=other"}]>>]
    /\ touched' = TRUE
    /\ UNCHANGED <<syncPc, desiredState, second, syncLog, syncErr, syncBefore, passes>>
    /\ UNCHANGED <<bindings, routeVars>>
    /\ UNCHANGED outsideSync

NextSync ==
    \/ StartSync
    \/ SyncExtraRBAC
    \/ SyncHTTPService
    \/ SyncSlaveService
    \/ SyncRoute
    \/ ChangeRouteAPI
    \/ ChangeStore

SpecSync == InitSync /\ [][NextSync]_vars

C20_ProbedOnceAndCached ==
    /\ routeHistory.calls = 0 => routeHistory.probes = 0 /\ ~routeHistory.ensured
    /\ routeHistory.calls > 0 =>
          /\ routeHistory.probes = 1
          /\ routeHistory.first # <<>>
          /\ routeHistory.last = routeHistory.first
          /\ routeHistory.ensured <=> routeHistory.first = <<TRUE>>

\* The first probe failed, the route API is served by now, and the second
\* call still answered false.
C20_Witness ==
    /\ routeHistory.calls = 2
    /\ routeHistory.probes = 1
    /\ routeHistory.first = <<FALSE>>
    /\ routeHistory.last = <<FALSE>>
    /\ routeAPIInstalled
    /\ ~routeHistory.ensured
    /\ syncPc = "done"
    /\ syncErr = NoErr

(***************************************************************************)
(* The notification dispatcher: Listen and the delivery tasks it spawns.   *)
(***************************************************************************)

HasMessages(ev) == Len(ev.messages) > 0

\* Mutant: every level becomes a Warning.
eventLevelToKubernetesEventType_Warning(level) == EventTypeWarning

eventLevelToKubernetesEventType(level) ==
    IF level = NotificationLevelWarning THEN EventTypeWarning ELSE EventTypeNormal

\* Mutant: a config naming no service gets a provider all the same.
IsKnownService_Any(config) == TRUE

\* The switch of Listen finds a provider for the config.
IsKnownService(config) == config.service \in {"slack", "teams", "mailgun", "smtp"}

\* Mutant: an Info event is skipped by every channel.
SkipsEvent_EveryInfo(ev, config) == ev.level = NotificationLevelInfo

\* isInfoEvent && wantsWarning
SkipsEvent(ev, config) ==
    /\ ev.level = NotificationLevelInfo
    /\ config.loggingLevel = NotificationLevelWarning

Task(for, channel) == [for |-> for, channel |-> channel, state |-> "spawned", carried |-> <<>>]

outsideListen ==
    <<reconcileVars, applyVars, rbacVars, serviceVars, routeVars, syncVars, routerVars,
      raceVars, secretVars, liveVars, updVars>>

InitListen ==
    /\ ReconcileIdle
    /\ notifications \in NotificationLists
    /\ fed = <<>>
    /\ eVar = <<>>
    /\ listenPc = "receive"
    /\ audits = <<>>
    /\ tasks = <<>>
    /\ loopVar \in {"shared", "perIteration"}
    /\ IdleOutside("listen")

\* Mutant: an event without messages is handled like any other.
ListenReceive_KeepsEmpty ==
    /\ listenPc = "receive"
    /\ Len(fed) < MaxFeed
    /\ \E ev \in NotificationEvents :
          /\ fed' = Append(fed, ev)
          /\ eVar' = <<Len(fed) + 1>>
          /\ audits' = Append(audits, [for |-> Len(fed) + 1,
                                       type |-> eventLevelToKubernetesEventType(ev.level)])
          /\ listenPc' = "dispatch"
    /\ UNCHANGED <<notifications, tasks, loopVar>>
    /\ UNCHANGED outsideListen

\* The loop receives the next event; one without messages is dropped, for
\* any other the platform event is emitted.
ListenReceive ==
    /\ listenPc = "receive"
    /\ Len(fed) < MaxFeed
    /\ \E ev \in NotificationEvents :
          /\ fed' = Append(fed, ev)
          /\ eVar' = <<Len(fed) + 1>>
          /\ IF ~HasMessages(ev)
             THEN UNCHANGED <<audits, listenPc>>
             ELSE /\ audits' = Append(audits, [for |-> Len(fed) + 1,
                                               type |-> eventLevelToKubernetesEventType(ev.level)])
                  /\ listenPc' = "dispatch"
    /\ UNCHANGED <<notifications, tasks, loopVar>>
    /\ UNCHANGED outsideListen

\* The loop over the notification configs of the event: a delivery task is
\* spawned for every config with a provider which does not skip the event.
ListenDispatch ==
    /\ listenPc = "dispatch"
    /\ LET ev == fed[eVar[1]]
           Spawns(k) == IsKnownService(notifications[k]) /\ ~SkipsEvent(ev, notifications[k])
           channels == SelectSeq([k \in 1..Len(notifications) |-> k], Spawns)
       IN  tasks' = tasks \o [i \in 1..Len(channels) |-> Task(eVar[1], channels[i])]
    /\ listenPc' = "receive"
    /\ UNCHANGED <<notifications, fed, eVar, audits, loopVar>>
    /\ UNCHANGED outsideListen

\* Mutant: a failed Send ends the loop.
TaskSend_FailureStopsLoop ==
    /\ \E i \in 1..Len(tasks), outcome \in {"sent", "failed", "hung"} :
          /\ tasks[i].state = "spawned"
          /\ tasks' = [tasks EXCEPT ![i] =
                 [@ EXCEPT !.state = outcome,
                           !.carried = IF loopVar = "shared" THEN eVar
                                       ELSE <<tasks[i].for>>]]
          /\ listenPc' = IF outcome = "sent" THEN listenPc ELSE "stopped"
    /\ UNCHANGED <<notifications, fed, eVar, audits, loopVar>>
    /\ UNCHANGED outsideListen

\* A delivery task calls Send with the event it reads from e; the call
\* returns nil ("sent"), returns an error, which is logged ("failed"), or
\* never returns ("hung").
TaskSend ==
    /\ \E i \in 1..Len(tasks), outcome \in {"sent", "failed", "hung"} :
          /\ tasks[i].state = "spawned"
          /\ tasks' = [tasks EXCEPT ![i] =
                 [@ EXCEPT !.state = outcome,
                           !.carried = IF loopVar = "shared" THEN eVar
                                       ELSE <<tasks[i].for>>]]
    /\ UNCHANGED <<notifications, fed, eVar, listenPc, audits, loopVar>>
    /\ UNCHANGED outsideListen

NextListen ==
    \/ ListenReceive
    \/ ListenDispatch
    \/ TaskSend

SpecListen == InitListen /\ [][NextListen]_vars

\* The loop is through with the i-th event of the feed.
Processed(i) == i < Len(fed) \/ (i = Len(fed) /\ listenPc = "receive")

AuditsFor(i) == { j \in 1..Len(audits) : audits[j].for = i }

TasksFor(i, k) == { j \in 1..Len(tasks) : tasks[j].for = i /\ tasks[j].channel = k }

SendsFor(i, k) == { j \in TasksFor(i, k) : tasks[j].state # "spawned" }

Recognized(k) == notifications[k].service \in {"slack", "teams", "mailgun", "smtp"}

InfoToWarningOnly(i, k) ==
    fed[i].level = "info" /\ notifications[k].loggingLevel = "warning"

\* C21: an event without cause messages gets no platform event and no
\* delivery task on any channel, and the loop goes on: it is ready for the
\* next event, and every later event with messages gets its platform event.
C21_EmptyEventIsDropped ==
    \A i \in 1..Len(fed) :
        fed[i].messages = <<>> =>
            /\ AuditsFor(i) = {}
            /\ \A k \in 1..Len(notifications) : TasksFor(i, k) = {}
            /\ i = Len(fed) => listenPc = "receive"
            /\ \A j \in (i + 1)..Len(fed) : fed[j].messages # <<>> => AuditsFor(j) # {}

C21_Witness ==
    /\ Len(fed) = 2
    /\ fed[1].messages = <<>>
    /\ fed[2].messages # <<>>
    /\ Processed(2)
    /\ \E k \in 1..Len(notifications) : SendsFor(2, k) # {}

\* C22: an event with cause messages has exactly one platform event, of
\* type Warning when its level is Warning and of type Normal otherwise,
\* whatever the channels and whatever became of the deliveries; no delivery
\* task of the event exists before the platform event is emitted.
C22_OneAuditEventFirst ==
    \A i \in 1..Len(fed) :
        fed[i].messages # <<>> =>
            /\ Cardinality(AuditsFor(i)) = 1
            /\ \A j \in AuditsFor(i) :
                  audits[j].type = (IF fed[i].level = "warning" THEN "Warning" ELSE "Normal")
            /\ (listenPc = "dispatch" /\ i = Len(fed)) =>
                  \A k \in 1..Len(notifications) : TasksFor(i, k) = {}

C22_Witness ==
    /\ Len(fed) = 2
    /\ fed[1].level = ""
    /\ fed[1].messages # <<>>
    /\ fed[2].level = "warning"
    /\ fed[2].messages # <<>>
    /\ audits = <<[for |-> 1, type |-> "Normal"], [for |-> 2, type |-> "Warning"]>>
    /\ \E j \in 1..Len(tasks) : tasks[j].state = "failed"

\* C23: once the loop is through with an event with cause messages, every
\* config with a recognized service has no delivery task for it when the
\* event is Info and the config wants Warning, and exactly one delivery task
\* otherwise; a task calls Send at most once.
C23_SeverityFilter ==
    \A i \in 1..Len(fed) : \A k \in 1..Len(notifications) :
        (Processed(i) /\ fed[i].messages # <<>> /\ Recognized(k)) =>
            /\ Cardinality(TasksFor(i, k)) = (IF InfoToWarningOnly(i, k) THEN 0 ELSE 1)
            /\ Cardinality(SendsFor(i, k)) <= Cardinality(TasksFor(i, k))

C23_Witness ==
    /\ Len(fed) = 2
    /\ Len(notifications) = 2
    /\ Recognized(1) /\ Recognized(2)
    /\ fed[1].level = "info" /\ fed[1].messages # <<>>
    /\ fed[2].level = "warning" /\ fed[2].messages # <<>>
    /\ Processed(2)
    /\ Cardinality(SendsFor(1, 1)) = 1 /\ TasksFor(1, 2) = {}
    /\ Cardinality(SendsFor(2, 1)) = 1 /\ Cardinality(SendsFor(2, 2)) = 1

\* C24: a config naming no recognized service gets no delivery task, the
\* configs after it in the list get theirs, and the loop goes on to the
\* next event.
C24_UnknownServiceIsSkipped ==
    \A i \in 1..Len(fed) : \A k \in 1..Len(notifications) :
        ~Recognized(k) =>
            /\ TasksFor(i, k) = {}
            /\ (Processed(i) /\ fed[i].messages # <<>>) =>
                  /\ \A n \in (k + 1)..Len(notifications) :
                        (Recognized(n) /\ ~InfoToWarningOnly(i, n)) =>
                            Cardinality(TasksFor(i, n)) = 1
                  /\ i = Len(fed) => listenPc = "receive"
                  /\ \A j \in (i + 1)..Len(fed) : fed[j].messages # <<>> => AuditsFor(j) # {}

C24_Witness ==
    /\ Len(fed) = 2
    /\ Len(notifications) = 2
    /\ ~Recognized(1)
    /\ Processed(2)
    /\ Cardinality(SendsFor(1, 2)) = 1
    /\ Cardinality(SendsFor(2, 2)) = 1

\* A Send of this step returns an error or never returns.
SendFails ==
    \E j \in 1..Len(tasks) :
        tasks[j].state = "spawned" /\ tasks'[j].state \in {"failed", "hung"}

\* C25: a step in which a Send fails or hangs changes nothing but the
\* task's own state: the loop, the feed, the platform events, the other
\* tasks and the reconcile cycle are as they were.
C25_SendFailureIsContained ==
    [][SendFails =>
         /\ UNCHANGED <<listenPc, fed, eVar, audits, notifications, reconcileVars>>
         /\ Len(tasks') = Len(tasks)
         /\ \A j \in 1..Len(tasks) :
               tasks'[j].state = tasks[j].state \/ tasks[j].state = "spawned"]_vars

\* The first event's delivery on the first channel hung and the one on the
\* second channel failed; the second event still reached both channels.
C25_Witness ==
    /\ Len(fed) = 2
    /\ Len(notifications) = 2
    /\ Processed(2)
    /\ \E j \in TasksFor(1, 1) : tasks[j].state = "hung"
    /\ \E j \in TasksFor(1, 2) : tasks[j].state = "failed"
    /\ \E j \in TasksFor(2, 1) : tasks[j].state = "sent"
    /\ \E j \in TasksFor(2, 2) : tasks[j].state = "sent"

\* C30: a delivery task calls Send with the event it was spawned for.
C30_TaskDeliversItsOwnEvent ==
    \A j \in 1..Len(tasks) :
        tasks[j].state # "spawned" => tasks[j].carried = <<tasks[j].for>>

\* ---------------------------------------------------------------------
\* The ownership event router and the instance-event decorator
\* ---------------------------------------------------------------------

Request(namespace, name) == [namespace |-> namespace, name |-> name]

\* Mutant: the watch label is not looked at.
getOwnerReconcileRequests_IgnoresWatch(object) ==
    IF object.labels.app = LabelAppValue /\ Len(object.labels.jenkinsCR) > 0
    THEN <<Request(object.namespace, object.labels.jenkinsCR)>>
    ELSE <<>>

\* The reconcile request of the owner named by the labels of the object,
\* <<>> for nil.
getOwnerReconcileRequests(object) ==
    IF /\ object.labels.app = LabelAppValue
       /\ object.labels.watch = LabelWatchValue
       /\ Len(object.labels.jenkinsCR) > 0
    THEN <<Request(object.namespace, object.labels.jenkinsCR)>>
    ELSE <<>>

outsideRouter ==
    <<reconcileVars, applyVars, rbacVars, serviceVars, routeVars, syncVars, listenVars,
      raceVars, secretVars, liveVars, updVars>>

InitRouter ==
    /\ ReconcileIdle
    /\ routed = NoRouted
    /\ decorated = NoDecorated
    /\ IdleOutside("router")

\* The record of one call of a handler of enqueueRequestForJenkins on one
\* object: adds is what the call put on the queue.
RoutedOne(kind, object) ==
    [kind |-> kind, old |-> NoObject, new |-> <<object>>,
     adds |-> getOwnerReconcileRequests(object)]

RouterCreate ==
    /\ \E object \in Objects : routed' = RoutedOne("create", object)
    /\ UNCHANGED decorated
    /\ UNCHANGED outsideRouter

\* The old and the new object of an update are two versions of one object:
\* same namespace, labels free.
RouterUpdate ==
    /\ \E objectOld \in Objects, objectNew \in Objects :
          /\ objectOld.namespace = objectNew.namespace
          /\ LET req1 == getOwnerReconcileRequests(objectOld)
                 req2 == getOwnerReconcileRequests(objectNew)
             IN  routed' = [kind |-> "update", old |-> <<objectOld>>,
                            new |-> <<objectNew>>,
                            adds |-> IF req1 # <<>> THEN req1 ELSE req2]
    /\ UNCHANGED decorated
    /\ UNCHANGED outsideRouter

RouterDelete ==
    /\ \E object \in Objects : routed' = RoutedOne("delete", object)
    /\ UNCHANGED decorated
    /\ UNCHANGED outsideRouter

RouterGeneric ==
    /\ \E object \in Objects : routed' = RoutedOne("generic", object)
    /\ UNCHANGED decorated
    /\ UNCHANGED outsideRouter

\* The record of one call of a handler of jenkinsDecorator: forwarded lists
\* the calls made on the wrapped handler, logged counts the log lines.
Decorated(kind, oldSpec, newSpec, logged, forwarded) ==
    [kind |-> kind, oldSpec |-> oldSpec, newSpec |-> newSpec,
     forwarded |-> forwarded, logged |-> logged]

DecoratorCreate ==
    /\ \E spec \in JenkinsSpecs :
          decorated' = Decorated("create", spec, spec, 1, <<"create">>)
    /\ UNCHANGED routed
    /\ UNCHANGED outsideRouter

\* Mutant: the update is forwarded only when the specifications differ.
DecoratorUpdate_OnlyOnChange ==
    /\ \E oldSpec \in JenkinsSpecs, newSpec \in JenkinsSpecs :
          decorated' = Decorated("update", oldSpec, newSpec,
                                 IF oldSpec # newSpec THEN 1 ELSE 0,
                                 IF oldSpec # newSpec THEN <<"update">> ELSE <<>>)
    /\ UNCHANGED routed
    /\ UNCHANGED outsideRouter

DecoratorUpdate ==
    /\ \E oldSpec \in JenkinsSpecs, newSpec \in JenkinsSpecs :
          decorated' = Decorated("update", oldSpec, newSpec,
                                 IF oldSpec # newSpec THEN 1 ELSE 0,
                                 <<"update">>)
    /\ UNCHANGED routed
    /\ UNCHANGED outsideRouter

DecoratorDelete ==
    /\ \E spec \in JenkinsSpecs :
          decorated' = Decorated("delete", spec, spec, 1, <<"delete">>)
    /\ UNCHANGED routed
    /\ UNCHANGED outsideRouter

DecoratorGeneric ==
    /\ \E spec \in JenkinsSpecs :
          decorated' = Decorated("generic", spec, spec, 0, <<"generic">>)
    /\ UNCHANGED routed
    /\ UNCHANGED outsideRouter

NextRouter ==
    \/ RouterCreate
    \/ RouterUpdate
    \/ RouterDelete
    \/ RouterGeneric
    \/ DecoratorCreate
    \/ DecoratorUpdate
    \/ DecoratorDelete
    \/ DecoratorGeneric

SpecRouter == InitRouter /\ [][NextRouter]_vars

\* The labels carry the three markers.
CarriesMarkers(object) ==
    /\ object.labels.app = "LabelAppValue"
    /\ object.labels.watch = "LabelWatchValue"
    /\ object.labels.jenkinsCR # ""

OwnerKey(object) == [namespace |-> object.namespace, name |-> object.labels.jenkinsCR]

\* C26: a create, delete or generic notification enqueues exactly the one
\* request (namespace, owning-instance label) when the labels of the object
\* carry the application marker, the watch marker and a non-empty
\* owning-instance label, and nothing otherwise.
C26_OwnerLookup ==
    routed.kind \in {"create", "delete", "generic"} =>
        routed.adds = (IF CarriesMarkers(routed.new[1])
                       THEN <<OwnerKey(routed.new[1])>>
                       ELSE <<>>)

C26_Witness ==
    /\ routed.kind = "delete"
    /\ routed.new[1].labels = [app |-> "LabelAppValue", watch |-> "LabelWatchValue", jenkinsCR |-> "b"]
    /\ routed.new[1].namespace = "other"
    /\ routed.adds = <<[namespace |-> "other", name |-> "b"]>>

\* C27: an update whose new object carries the three markers enqueues the
\* request of the owner named by the new object's labels.
C27_UpdateEnqueuesNewOwner ==
    (routed.kind = "update" /\ CarriesMarkers(routed.new[1])) =>
        \E n \in 1..Len(routed.adds) : routed.adds[n] = OwnerKey(routed.new[1])

\* C28: every event handled by the decorator is forwarded to the wrapped
\* handler exactly once, as the same kind of event; an update is forwarded
\* whether or not the specifications differ, and only the log line depends
\* on the comparison.
C28_DecoratorForwardsOnce ==
    decorated.kind # "none" =>
        /\ decorated.forwarded = <<decorated.kind>>
        /\ decorated.kind = "update" =>
              (decorated.logged = 1 <=> decorated.oldSpec # decorated.newSpec)

C28_Witness ==
    /\ decorated.kind = "update"
    /\ decorated.oldSpec = decorated.newSpec
    /\ decorated.logged = 0
    /\ decorated.forwarded = <<"update">>

\* ---------------------------------------------------------------------
\* The reconcile cycle: errors, timeout and readiness
\* ---------------------------------------------------------------------

\* C32 as stated: an error is returned with the empty result and no client.
C32_ErrorComesWithEmptyResult ==
    (pc = "done" /\ returned.err # "nil") =>
        /\ returned.result = [requeue |-> FALSE, requeueAfter |-> 0]
        /\ returned.client = "nil"

\* C32 amended: the error of a stage before the configuration is returned
\* with the empty result and no client; the error of the restart requested
\* on a plugin mismatch is returned with requeue=true and no client; the
\* error of the configuration stage is returned with that stage's result
\* and the acquired client.
C32_ErrorResultByStage ==
    (pc = "done" /\ returned.err # "nil") =>
        IF LastCall.stage = "configuration"
        THEN /\ returned.err = LastCall.err
             /\ returned.result = LastCall.result
             /\ returned.client = "jenkinsClient"
        ELSE IF LastCall.stage = "plugins" /\ LastCall.err = "nil"
        THEN /\ ~LastCall.ok
             /\ Len(restarts) = 1
             /\ returned.result = [requeue |-> TRUE, requeueAfter |-> 0]
             /\ returned.client = "nil"
        ELSE /\ returned.err = LastCall.err
             /\ returned.result = [requeue |-> FALSE, requeueAfter |-> 0]
             /\ returned.client = "nil"

C32_Witness ==
    /\ pc = "done"
    /\ LastCall.stage = "configuration"
    /\ returned.err = "groovyErr"
    /\ returned.result = [requeue |-> TRUE, requeueAfter |-> 0]
    /\ returned.client = "jenkinsClient"

\* The detector read the pod of an instance with a provisioning start.
DetectorReadPod ==
    /\ det.called
    /\ det.phase # <<>>
    /\ jenkins.provisionStartTime # <<>>

\* C37: with a provisioning start recorded, a pod that is not Pending never
\* stops the loop; for a Pending pod the events are listed, and the detector
\* stops or fails, only when the clock is strictly later than the start plus
\* 2 minutes; up to and including 2 minutes it returns stop=false, no error,
\* and lists nothing; a failed listing is returned as the error, stop=false.
C37_PendingBoundIsStrict ==
    DetectorReadPod =>
        /\ det.phase # <<"Pending">> => (~det.stop /\ det.err = "nil" /\ ~det.listed)
        /\ det.phase = <<"Pending">> =>
              /\ det.now # <<>>
              /\ (det.listed \/ det.stop \/ det.err # "nil") =>
                    det.now[1] > jenkins.provisionStartTime[1] + 2
              /\ det.now[1] <= jenkins.provisionStartTime[1] + 2 =>
                    (~det.stop /\ det.err = "nil" /\ ~det.listed)
              /\ det.err # "nil" => (det.err = "listErr" /\ ~det.stop /\ ~det.listed)
              /\ det.stop => det.listed

\* A Pending pod read at exactly two minutes: the cycle goes on to the
\* readiness wait.
C37_Witness ==
    /\ DetectorReadPod
    /\ det.phase = <<"Pending">>
    /\ det.now = <<jenkins.provisionStartTime[1] + 2>>
    /\ ~det.stop
    /\ det.err = "nil"
    /\ ~det.listed
    /\ pc = "wait"

RunningWithoutContainers ==
    /\ waitPod # <<>>
    /\ waitPod[1].phase = "Running"
    /\ ~waitPod[1].terminating
    /\ waitPod[1].containerStatuses = <<>>

\* C38: a pod that is Running, not terminating and reports no container
\* status is ready: the readiness wait returns the empty result and no
\* error, requests no restart, and the cycle goes on to acquire the client.
C38_NoContainersIsReady ==
    RunningWithoutContainers =>
        /\ \E i \in 1..Len(calls) :
              /\ calls[i].stage = "wait"
              /\ calls[i].result = [requeue |-> FALSE, requeueAfter |-> 0]
              /\ calls[i].err = "nil"
        /\ \A k \in 1..Len(restarts) : restarts[k].by # "waitForJenkins"
        /\ pc = "client" \/ Invoked("client")

C38_Witness ==
    /\ RunningWithoutContainers
    /\ Invoked("client")
    /\ pc = "done"
    /\ returned.client = "jenkinsClient"
    /\ returned.err = "nil"

\* ---------------------------------------------------------------------
\* The extra-binding pass and its errors
\* ---------------------------------------------------------------------

StaleBefore ==
    { b \in rbacPass.before :
        /\ b.namespace = rbacPass.meta.namespace
        /\ CarriesManagedPrefix(b.name, rbacPass.meta.name)
        /\ b.name \notin DesiredNames(rbacPass.meta.name, rbacPass.roles) }

DeleteCalled == { rbacPass.deleteCalls[i] : i \in 1..Len(rbacPass.deleteCalls) }

\* C35: the Create of a binding that exists is no error: the binding stays
\* and is neither written nor deleted, the remaining roles are handled and
\* the cleanup runs.  Any other Create error ends the pass before a delete;
\* a Delete error ends the pass at once, the binding it failed on and the
\* stale bindings after it stay in the store.
C35_ExistingBindingIsNoError ==
    rbacPass.ran =>
        /\ rbacPass.fault.at # "create" =>
              /\ rbacPass.err # "createErr"
              /\ Len(rbacPass.attempted) = Len(rbacPass.roles)
        /\ rbacPass.fault.at = "none" => rbacPass.err = "nil"
        /\ \A i \in 1..Len(rbacPass.attempted) :
              LET b == [namespace |-> rbacPass.meta.namespace, name |-> rbacPass.attempted[i]]
              IN  b \in rbacPass.before =>
                      /\ b \in bindings
                      /\ b \notin rbacPass.created
                      /\ b.name \notin DeleteCalled
                      /\ rbacPass.err \in {"nil", "listErr", "deleteErr"} =>
                            Len(rbacPass.attempted) = Len(rbacPass.roles)
        /\ rbacPass.err = "nil" =>
              /\ Len(rbacPass.attempted) = Len(rbacPass.roles)
              /\ DesiredNames(rbacPass.meta.name, rbacPass.roles)
                    \subseteq ManagedNames(bindings, rbacPass.meta)
              /\ StaleBefore \cap bindings = {}
              /\ rbacPass.deleted = StaleBefore
        /\ rbacPass.err = "createErr" =>
              /\ rbacPass.deleteCalls = <<>>
              /\ rbacPass.deleted = {}
              /\ bindings = rbacPass.before \cup rbacPass.created
        /\ rbacPass.err = "deleteErr" =>
              /\ rbacPass.deleteCalls # <<>>
              /\ LET last == rbacPass.deleteCalls[Len(rbacPass.deleteCalls)]
                 IN  /\ [namespace |-> rbacPass.meta.namespace, name |-> last] \in bindings
                     /\ { b.name : b \in rbacPass.deleted } = DeleteCalled \ {last}
              /\ \A b \in StaleBefore : b.name \notin DeleteCalled => b \in bindings

\* The binding of the first role existed, the binding of the second one was
\* created, and a stale binding was deleted.
C35_Witness ==
    /\ rbacPass.ran
    /\ rbacPass.fault.at = "none"
    /\ rbacPass.err = "nil"
    /\ Len(rbacPass.roles) = 2
    /\ [namespace |-> rbacPass.meta.namespace, name |-> rbacPass.attempted[1]]
          \in rbacPass.before
    /\ [namespace |-> rbacPass.meta.namespace, name |-> rbacPass.attempted[2]]
          \in rbacPass.created
    /\ rbacPass.deleted # {}

\* ---------------------------------------------------------------------
\* A second run of the service step and of the extra-binding pass
\* ---------------------------------------------------------------------

BindingWrites == SelectSeq(syncLog, LAMBDA w : w.kind = "RoleBinding")

\* C34: while a pass repeats a pass without error, with the same desired
\* state and no change of the store in between, both stored services keep
\* the selector and the ports the first run left, the bindings of the
\* namespace are the same set, no Delete of a binding is called and no
\* Create of a binding stores one.
C34_SecondRunIsStateIdempotent ==
    (second /\ ~touched) =>
        /\ \A n \in {"http", "slave"} :
              /\ services[n] # <<>>
              /\ syncBefore.services[n] # <<>>
              /\ services[n][1].selector = syncBefore.services[n][1].selector
              /\ services[n][1].port = syncBefore.services[n][1].port
              /\ services[n][1].targetPort = syncBefore.services[n][1].targetPort
        /\ bindings = syncBefore.bindings
        /\ \A i \in 1..Len(BindingWrites) :
              /\ BindingWrites[i].op = "create"
              /\ BindingWrites[i].changed = FALSE

\* The second run has gone through the extra-binding pass, where two
\* bindings were desired, and through both service steps, without error.
C34_Witness ==
    /\ second
    /\ ~touched
    /\ syncPc \in {"route", "done"}
    /\ syncErr = "nil"
    /\ Len(BindingWrites) = 2
    /\ Len(SelectSeq(syncLog, LAMBDA w : w.kind = "Service" /\ w.op = "update")) = 2
    /\ services["http"][1].selector = Labels
    /\ services["http"][1].port = desiredState.service.port

\* ---------------------------------------------------------------------
\* IsRouteAPIAvailable called from several execution contexts
\* ---------------------------------------------------------------------

outsideRace ==
    <<reconcileVars, applyVars, rbacVars, serviceVars, syncVars, listenVars, routerVars,
      secretVars, liveVars, updVars>>

\* The callers are about to enter the function; nothing is cached yet.
InitRace ==
    /\ ReconcileIdle
    /\ routeAPIChecked = FALSE
    /\ isRouteAPIAvailable = FALSE
    /\ routeAPIInstalled \in BOOLEAN
    /\ route = <<>>
    /\ routeHistory = NoRouteHistory
    /\ racePc = [c \in Callers |-> "check"]
    /\ raceErr = [c \in Callers |-> <<>>]
    /\ raceRet = [c \in Callers |-> <<>>]
    /\ probeOutcomes = {}
    /\ IdleOutside("race")

RaceFrame ==
    /\ UNCHANGED <<routeAPIInstalled, route, routeHistory>>
    /\ UNCHANGED outsideRace

\* if routeAPIChecked {
RaceCheck ==
    /\ \E c \in Callers :
          /\ racePc[c] = "check"
          /\ racePc' = [racePc EXCEPT ![c] = IF routeAPIChecked THEN "cached" ELSE "probe"]
    /\ UNCHANGED <<routeAPIChecked, isRouteAPIAvailable, raceErr, raceRet, probeOutcomes>>
    /\ RaceFrame

\* return isRouteAPIAvailable (the cached answer)
RaceReturnCached ==
    /\ \E c \in Callers :
          /\ racePc[c] = "cached"
          /\ raceRet' = [raceRet EXCEPT ![c] = <<isRouteAPIAvailable>>]
          /\ racePc' = [racePc EXCEPT ![c] = "done"]
    /\ UNCHANGED <<routeAPIChecked, isRouteAPIAvailable, raceErr, probeOutcomes>>
    /\ RaceFrame

\* err := discovery.ServerSupportsVersion(clientSet, gv)
RaceProbe ==
    /\ \E c \in Callers, discoveryOK \in BOOLEAN :
          /\ racePc[c] = "probe"
          /\ raceErr' = [raceErr EXCEPT ![c] = <<~(routeAPIInstalled /\ discoveryOK)>>]
          /\ probeOutcomes' = probeOutcomes \cup {routeAPIInstalled /\ discoveryOK}
          /\ racePc' = [racePc EXCEPT ![c] = "setChecked"]
    /\ UNCHANGED <<routeAPIChecked, isRouteAPIAvailable, raceRet>>
    /\ RaceFrame

\* routeAPIChecked = true
RaceSetChecked ==
    /\ \E c \in Callers :
          /\ racePc[c] = "setChecked"
          /\ routeAPIChecked' = TRUE
          /\ racePc' = [racePc EXCEPT ![c] = "setAvailable"]
    /\ UNCHANGED <<isRouteAPIAvailable, raceErr, raceRet, probeOutcomes>>
    /\ RaceFrame

\* isRouteAPIAvailable = false, or = true
RaceSetAvailable ==
    /\ \E c \in Callers :
          /\ racePc[c] = "setAvailable"
          /\ isRouteAPIAvailable' = ~raceErr[c][1]
          /\ racePc' = [racePc EXCEPT ![c] = "return"]
    /\ UNCHANGED <<routeAPIChecked, raceErr, raceRet, probeOutcomes>>
    /\ RaceFrame

\* return isRouteAPIAvailable (after the probe)
RaceReturn ==
    /\ \E c \in Callers :
          /\ racePc[c] = "return"
          /\ raceRet' = [raceRet EXCEPT ![c] = <<isRouteAPIAvailable>>]
          /\ racePc' = [racePc EXCEPT ![c] = "done"]
    /\ UNCHANGED <<routeAPIChecked, isRouteAPIAvailable, raceErr, probeOutcomes>>
    /\ RaceFrame

NextRace ==
    \/ RaceCheck
    \/ RaceReturnCached
    \/ RaceProbe
    \/ RaceSetChecked
    \/ RaceSetAvailable
    \/ RaceReturn

SpecRace == InitRace /\ [][NextRace]_vars

\* C31: every concurrent call returns the outcome of a probe that was made;
\* on a platform whose probes all succeeded no call returns false.
C31_ReturnsTheProbeOutcome ==
    \A c \in Callers :
        raceRet[c] # <<>> => raceRet[c][1] \in probeOutcomes

\* ---------------------------------------------------------------------
\* UpdateRoute on an observed route
\* ---------------------------------------------------------------------

outsideUpd ==
    <<reconcileVars, applyVars, rbacVars, serviceVars, routeVars, syncVars, listenVars,
      routerVars, raceVars, secretVars, liveVars>>

InitUpd ==
    /\ ReconcileIdle
    /\ \E actual \in Routes, port \in Ports :
          routeCall = [step |-> 0, actual |-> actual, port |-> port,
                       out |-> <<>>, again |-> <<>>]
    /\ IdleOutside("upd")

\* UpdateRoute(actual, jenkins); the HTTP service of the instance is "http".
ApplyUpdateRoute ==
    /\ routeCall.step = 0
    /\ routeCall' = [routeCall EXCEPT
                        !.step = 1,
                        !.out = <<UpdateRoute(routeCall.actual, "http", routeCall.port)>>]
    /\ UNCHANGED outsideUpd

\* UpdateRoute on the route the first call returned.
ApplyUpdateRouteAgain ==
    /\ routeCall.step = 1
    /\ ~routeCall.out[1].panic
    /\ routeCall' = [routeCall EXCEPT
                        !.step = 2,
                        !.again = <<UpdateRoute(routeCall.out[1].route, "http",
                                                routeCall.port)>>]
    /\ UNCHANGED outsideUpd

NextUpd ==
    \/ ApplyUpdateRoute
    \/ ApplyUpdateRouteAgain

SpecUpd == InitUpd /\ [][NextUpd]_vars

\* C39: the call returns a route whose target is the HTTP service and whose
\* target port is the desired port, with the host as observed, and the
\* call on its result returns the same route.
C39_UpdateRouteSetsTarget ==
    /\ routeCall.step >= 1 =>
          /\ ~routeCall.out[1].panic
          /\ routeCall.out[1].route.to = "http"
          /\ routeCall.out[1].route.port =
                <<[targetPort |-> [type |-> "Int", intVal |-> routeCall.port, strVal |-> ""]]>>
          /\ routeCall.out[1].route.host = routeCall.actual.host
    /\ routeCall.step = 2 =>
          /\ ~routeCall.again[1].panic
          /\ routeCall.again[1].route = routeCall.out[1].route

\* ---------------------------------------------------------------------
\* The operator credentials secret
\* ---------------------------------------------------------------------

\* found.Data[key] != nil
HasEntry(entry) == entry # <<>>

SecretFaults == {"none", "get", "create", "update"}

SecretReturn(stored, err, writes) == [stored |-> stored, err |-> err, writes |-> writes]

\* Mutant: a secret that exists is always overwritten.
createOperatorCredentialsSecret_AlwaysUpdates(stored, fault) ==
    IF fault = "get"
    THEN SecretReturn(stored, "getErr", <<>>)
    ELSE IF stored = <<>>
    THEN IF fault = "create"
         THEN SecretReturn(stored, "createErr", <<Write("create", "Secret", "credentials", FALSE)>>)
         ELSE SecretReturn(<<NewOperatorCredentialsSecret>>, NoErr,
                           <<Write("create", "Secret", "credentials", TRUE)>>)
    ELSE IF fault = "update"
    THEN SecretReturn(stored, "updateErr", <<Write("update", "Secret", "credentials", FALSE)>>)
    ELSE SecretReturn(<<NewOperatorCredentialsSecret>>, NoErr,
                      <<Write("update", "Secret", "credentials", TRUE)>>)

\* createOperatorCredentialsSecret on the stored secret; fault names the
\* call of the platform client that fails, if any ("get": the lookup fails
\* with an error other than not-found).
createOperatorCredentialsSecret(stored, fault) ==
    IF fault = "get"
    THEN SecretReturn(stored, "getErr", <<>>)
    ELSE IF stored = <<>>
    THEN IF fault = "create"
         THEN SecretReturn(stored, "createErr", <<Write("create", "Secret", "credentials", FALSE)>>)
         ELSE SecretReturn(<<NewOperatorCredentialsSecret>>, NoErr,
                           <<Write("create", "Secret", "credentials", TRUE)>>)
    ELSE IF HasEntry(stored[1].userName) /\ HasEntry(stored[1].password)
    THEN SecretReturn(stored, NoErr, <<>>)
    ELSE IF fault = "update"
    THEN SecretReturn(stored, "updateErr", <<Write("update", "Secret", "credentials", FALSE)>>)
    ELSE SecretReturn(<<NewOperatorCredentialsSecret>>, NoErr,
                      <<Write("update", "Secret", "credentials", TRUE)>>)

outsideSecret ==
    <<reconcileVars, applyVars, rbacVars, serviceVars, routeVars, syncVars, listenVars,
      routerVars, raceVars, liveVars, updVars>>

InitSecret ==
    /\ ReconcileIdle
    /\ secret \in { <<>> } \cup { <<sec>> : sec \in Secrets }
    /\ secretPass = NoSecretPass
    /\ IdleOutside("secret")

CreateOperatorCredentialsSecret ==
    /\ \E fault \in SecretFaults :
          LET call == createOperatorCredentialsSecret(secret, fault)
          IN  /\ secret' = call.stored
              /\ secretPass' = [ran |-> TRUE, before |-> secret, after |-> call.stored,
                                fault |-> fault, writes |-> call.writes, err |-> call.err]
    /\ UNCHANGED outsideSecret

\* Between two cycles somebody deletes the secret or edits its entries.
EditSecret ==
    /\ secretPass.ran
    /\ \E edited \in { <<>> } \cup { <<sec>> : sec \in Secrets } :
          /\ edited # secret
          /\ secret' = edited
    /\ UNCHANGED secretPass
    /\ UNCHANGED outsideSecret

NextSecret ==
    \/ CreateOperatorCredentialsSecret
    \/ EditSecret

SpecSecret == InitSecret /\ [][NextSecret]_vars

WriteOps(writes) == [i \in 1..Len(writes) |-> writes[i].op]

\* C36: a lookup error other than not-found is returned without a write;
\* otherwise an absent secret is created, a secret with a user-name entry
\* and a password entry is left as it is without a write, and a secret
\* lacking one of the two entries is overwritten.
C36_ExistingCredentialsAreKept ==
    secretPass.ran =>
        IF secretPass.fault = "get"
        THEN /\ secretPass.writes = <<>>
             /\ secretPass.err # "nil"
             /\ secretPass.after = secretPass.before
        ELSE IF secretPass.before = <<>>
        THEN /\ WriteOps(secretPass.writes) = <<"create">>
             /\ secretPass.err = "nil" =>
                   secretPass.after = <<[userName |-> <<"generated">>, password |-> <<"generated">>]>>
        ELSE IF secretPass.before[1].userName # <<>> /\ secretPass.before[1].password # <<>>
        THEN /\ secretPass.writes = <<>>
             /\ secretPass.err = "nil"
             /\ secretPass.after = secretPass.before
        ELSE /\ WriteOps(secretPass.writes) = <<"update">>
             /\ secretPass.err = "nil" =>
                   secretPass.after = <<[userName |-> <<"generated">>, password |-> <<"generated">>]>>

\* The secret exists with both entries, the update would fail: the call
\* writes nothing and returns no error.
C36_Witness ==
    /\ secretPass.ran
    /\ secretPass.fault = "update"
    /\ secretPass.before = <<[userName |-> <<"stored">>, password |-> <<"stored">>]>>
    /\ secretPass.writes = <<>>
    /\ secretPass.err = "nil"
    /\ secret = secretPass.before

\* ---------------------------------------------------------------------
\* Cycle after cycle, on a platform that settles
\* ---------------------------------------------------------------------
\* The cycles of Reconcile as the scheduler invokes them one after the
\* other, the platform and the collaborators answering as env allows.  The
\* lists a cycle reads hold at most MaxLive entries here, and the installed
\* plugins are the desired ones or none.

outsideLive ==
    <<applyVars, rbacVars, serviceVars, routeVars, syncVars, listenVars,
      routerVars, raceVars, secretVars, updVars>>

InitLive ==
    /\ pc = "resources"
    /\ jenkins \in JenkinsInstances
    /\ calls = <<>>
    /\ restarts = <<>>
    /\ returned = NotReturned
    /\ det = NoDetect
    /\ waitPod = <<>>
    /\ plugins = NoPlugins
    /\ env = "any"
    /\ IdleOutside("live")

\* What the stage that has just run was answered.
LastAnswer == calls'[Len(calls')]

\* From now on the platform answers as "ready" or "healthy" say; it does
\* not fall back.
Settle ==
    /\ env # "healthy"
    /\ env' \in (IF env = "any" THEN {"ready", "healthy"} ELSE {"healthy"})
    /\ UNCHANGED <<reconcileVars, outsideLive>>

LiveResources ==
    /\ ensureResourcesRequiredForJenkinsPod
    /\ env = "healthy" => LastAnswer.err = NoErr

LiveDeployment ==
    /\ ensureJenkinsDeployment
    /\ env = "healthy" => LastAnswer.err = NoErr

LiveMasterPod ==
    /\ ensureJenkinsMasterPod
    /\ env = "healthy" => (LastAnswer.err = NoErr /\ ~LastAnswer.result.requeue)

LiveDetect ==
    /\ DetectStartingIssues
    /\ Cardinality(det'.events) <= MaxLive
    /\ env # "any" => det'.phase = <<PodRunning>>

LiveWait ==
    /\ WaitForJenkins
    /\ waitPod' # <<>> => Len(waitPod'[1].containerStatuses) <= MaxLive
    /\ env # "any" => (waitPod' # <<>> /\ AllReady(waitPod'[1]))

LiveClient ==
    /\ GetJenkinsClient
    /\ env = "healthy" => LastAnswer.err = NoErr

LivePlugins ==
    /\ verifyPlugins
    /\ Len(plugins'.desired) <= MaxLive
    /\ plugins'.installed \in {plugins'.desired, <<>>}
    /\ env # "any" => (LastAnswer.err = NoErr /\ LastAnswer.ok)

LiveConfiguration ==
    /\ ensureBaseConfiguration
    /\ env # "any" => (LastAnswer.err = NoErr /\ ~LastAnswer.result.requeue)

\* One stage of the running cycle.
LiveStage ==
    \/ LiveResources
    \/ LiveDeployment
    \/ LiveMasterPod
    \/ LiveDetect
    \/ AfterDetect
    \/ LiveWait
    \/ LiveClient
    \/ LivePlugins
    \/ LiveConfiguration

\* The cycle asked to be invoked again: with a requeue, or with an error,
\* which the scheduler answers with a requeue.
AsksRequeue ==
    \/ returned.result.requeue
    \/ returned.result.requeueAfter > 0
    \/ returned.err # NoErr

\* The scheduler re-invokes a cycle that asked for it.
Requeued ==
    /\ AsksRequeue
    /\ NextCycle

\* A change of a watched object invokes a cycle.
Triggered ==
    /\ ~AsksRequeue
    /\ NextCycle

NextLive ==
    \/ Settle
    \/ LiveResources
    \/ LiveDeployment
    \/ LiveMasterPod
    \/ LiveDetect
    \/ AfterDetect
    \/ LiveWait
    \/ LiveClient
    \/ LivePlugins
    \/ LiveConfiguration
    \/ Requeued
    \/ Triggered

\* A cycle that was invoked runs to its return, and the scheduler
\* re-invokes after every requeue.
SpecLive ==
    /\ InitLive
    /\ [][NextLive]_vars
    /\ WF_vars(LiveStage)
    /\ WF_vars(Requeued)

ProvisionStartRecorded == jenkins.provisionStartTime # <<>>

\* A cycle has returned a client, no error and no requeue.
ClientReturned ==
    /\ pc = "done"
    /\ returned.client # "nil"
    /\ returned.err = "nil"
    /\ ~returned.result.requeue
    /\ returned.result.requeueAfter = 0

\* A cycle has returned without client and without asking for another one.
ReturnedShort ==
    /\ pc = "done"
    /\ returned.client = "nil"
    /\ ~AsksRequeue

====
